---- MODULE Spec2Model ----
(***************************************************************************)
(* Model of the a2ai-assistants orchestrator core:                         *)
(*   - the patch engine (a2ui.py: _ensure_path, apply_patches),            *)
(*   - the session hub and the /events publisher (a2ui.py, main.py),       *)
(*   - the MCP tool client and the tool server's SSE transport             *)
(*     (mcp_client.py, services/mcp_tools/server.py),                      *)
(*   - the A2A client (a2a_client.py).                                     *)
(* The specifications share the module and its Init: SpecPatch (the patch  *)
(* engine run one operation at a time), Spec (sessions, flows and          *)
(* publishers), SpecHubApi (the hub's drop, push and push_update_and_apply *)
(* under any caller), SpecRpc (concurrent call_tool invocations against    *)
(* the tool server), SpecA2A (one message_send call against any answer),   *)
(* SpecServer (the tool server under any client), SpecFlood (the tool      *)
(* server under one client that posts without end and streams that stall), *)
(* SpecParse (_parse_sse_events on any lines) and the fair variants        *)
(* SpecFair, SpecHubApiFair, SpecRpcFair, SpecStreamsFair (streams of the  *)
(* tool server that end) and SpecFlowFair (the flows of main.py).          *)
(***************************************************************************)
EXTENDS Naturals, Sequences, FiniteSets, TLC

(***************************************************************************)
(* Bounds of the model.                                                    *)
(***************************************************************************)
MaxBatch == 2
MaxOps == 2
\* the tool server under a flood of requests: the requests one client sends,
\* the payloads a stream's reader takes, and the request after which no
\* further stream connects
MaxFlood == 101
MaxYields == 2
MaxLate == 1
MaxLines == 5

(***************************************************************************)
(* JSON values.  A mapping (Python dict) is [d |-> f] with f a function    *)
(* from keys to values; a scalar (bool, str, number, None) is [s |-> x];  *)
(* a list is [l |-> <<...>>]; a string whose characters matter (a pointer)  *)
(* is [str |-> tokens].  isinstance(v, dict) is IsDict(v).                *)
(***************************************************************************)
Dict(f) == [d |-> f]
Scal(x) == [s |-> x]
List(q) == [l |-> q]
Str(tokens) == [str |-> tokens]
IsDict(v) == "d" \in DOMAIN v
IsStr(v) == "str" \in DOMAIN v
NoKeys == [k \in {} |-> Scal("none")]
EmptyDict == Dict(NoKeys)
None == Scal("none")

\* cur[seg] = v on a dict's contents
Put(f, k, v) == [x \in (DOMAIN f) \cup {k} |-> IF x = k THEN v ELSE f[x]]

(***************************************************************************)
(* A pointer is a string; it is modelled as its sequence of tokens, each   *)
(* either the separator "/" or a maximal run of other characters (a key).  *)
(* "/status/loading" is <<"/", "status", "/", "loading">>.                 *)
(***************************************************************************)
Slash == "/"

\* path.startswith("/")
StartsWithSlash(path) == Len(path) > 0 /\ path[1] = Slash

\* [p for p in path.split("/") if p]
SplitParts(path) == SelectSeq(path, LAMBDA t : t # Slash)

\* parts[:-1]
Front(parts) == IF parts = <<>> THEN <<>> ELSE SubSeq(parts, 1, Len(parts) - 1)

\* parts[-1] if parts else ""
LastOrEmpty(parts) == IF parts = <<>> THEN "" ELSE parts[Len(parts)]

(***************************************************************************)
(* The loop of _ensure_path over parts[:-1], on the value cur.  It returns *)
(* the value as the loop leaves it (mutations made before a raise stay)    *)
(* and whether the loop raised.                                            *)
(***************************************************************************)
RECURSIVE EnsureLoop(_, _)
EnsureLoop(cur, segs) ==
  IF segs = <<>> THEN [doc |-> cur, raised |-> FALSE]
  ELSE IF IsDict(cur)
       THEN LET seg == Head(segs)
                child == IF seg \in DOMAIN cur.d /\ IsDict(cur.d[seg])
                         THEN cur.d[seg] ELSE EmptyDict
                r == EnsureLoop(child, Tail(segs))
            IN [doc |-> Dict(Put(cur.d, seg, r.doc)), raised |-> r.raised]
       ELSE [doc |-> cur, raised |-> TRUE]

\* A variant that validates the pointer's leading "/" only after the loop ran.
EnsurePathLateCheck(obj, path) ==
  LET parts == SplitParts(path)
      r == EnsureLoop(obj, Front(parts))
  IN [doc |-> r.doc, raised |-> r.raised \/ ~StartsWithSlash(path),
      parent |-> Front(parts), last |-> LastOrEmpty(parts)]

(***************************************************************************)
(* _ensure_path(obj, path): the document after the call, whether it        *)
(* raised, the place of the returned parent (the keys leading to it) and   *)
(* the last segment.                                                       *)
(***************************************************************************)
EnsurePath(obj, path) ==
  LET parts == SplitParts(path)
  IN IF ~StartsWithSlash(path)
     THEN [doc |-> obj, raised |-> TRUE, parent |-> <<>>, last |-> ""]
     ELSE LET r == EnsureLoop(obj, Front(parts))
          IN [doc |-> r.doc, raised |-> r.raised,
              parent |-> Front(parts), last |-> LastOrEmpty(parts)]

\* A variant of parent[last] = value that rebuilds the parent with the one key.
RECURSIVE SetAtFresh(_, _, _, _)
SetAtFresh(doc, keys, last, value) ==
  IF keys = <<>> THEN Dict(Put(NoKeys, last, value))
  ELSE Dict(Put(doc.d, Head(keys),
                SetAtFresh(doc.d[Head(keys)], Tail(keys), last, value)))

\* A variant of parent[last] = value that deletes the key when it already holds
\* the value.
RECURSIVE SetAtToggle(_, _, _, _)
SetAtToggle(doc, keys, last, value) ==
  IF keys = <<>>
  THEN IF last \in DOMAIN doc.d /\ doc.d[last] = value
       THEN Dict([k \in (DOMAIN doc.d) \ {last} |-> doc.d[k]])
       ELSE Dict(Put(doc.d, last, value))
  ELSE Dict(Put(doc.d, Head(keys),
                SetAtToggle(doc.d[Head(keys)], Tail(keys), last, value)))

\* parent[last] = value, parent being the mapping reached along keys
RECURSIVE SetAt(_, _, _, _)
SetAt(doc, keys, last, value) ==
  IF keys = <<>> THEN Dict(Put(doc.d, last, value))
  ELSE Dict(Put(doc.d, Head(keys), SetAt(doc.d[Head(keys)], Tail(keys), last, value)))

\* A variant whose whole-document case is model.update(value) without the clear.
ApplyOpMerge(model, p) ==
  IF p.op \notin {"add", "replace"} THEN [doc |-> model, raised |-> FALSE]
  ELSE IF ~IsStr(p.path) THEN [doc |-> model, raised |-> FALSE]
  ELSE LET e == EnsurePath(model, p.path.str)
       IN IF e.raised THEN [doc |-> e.doc, raised |-> TRUE]
          ELSE IF e.last = ""
               THEN [doc |-> IF IsDict(p.value) THEN Dict(p.value.d @@ e.doc.d)
                             ELSE e.doc,
                     raised |-> FALSE]
               ELSE [doc |-> SetAt(e.doc, e.parent, e.last, p.value),
                     raised |-> FALSE]

\* A variant that rejects an operation it does not handle instead of skipping it.
ApplyOpStrict(model, p) ==
  IF p.op \notin {"add", "replace"} THEN [doc |-> model, raised |-> TRUE]
  ELSE IF ~IsStr(p.path) THEN [doc |-> model, raised |-> TRUE]
  ELSE LET e == EnsurePath(model, p.path.str)
       IN IF e.raised THEN [doc |-> e.doc, raised |-> TRUE]
          ELSE IF e.last = ""
               THEN [doc |-> IF IsDict(p.value) THEN p.value ELSE e.doc,
                     raised |-> FALSE]
               ELSE [doc |-> SetAt(e.doc, e.parent, e.last, p.value),
                     raised |-> FALSE]

(***************************************************************************)
(* A patch is [op, path, value], path a JSON value.  ApplyOp is one        *)
(* iteration of the loop of apply_patches on the document model.           *)
(***************************************************************************)
ApplyOp(model, p) ==
  IF p.op \notin {"add", "replace"} THEN [doc |-> model, raised |-> FALSE]
  ELSE IF ~IsStr(p.path) THEN [doc |-> model, raised |-> FALSE]
  ELSE LET e == EnsurePath(model, p.path.str)
       IN IF e.raised THEN [doc |-> e.doc, raised |-> TRUE]
          ELSE IF e.last = ""
               THEN [doc |-> IF IsDict(p.value) THEN p.value ELSE e.doc,
                     raised |-> FALSE]
               ELSE [doc |-> SetAt(e.doc, e.parent, e.last, p.value),
                     raised |-> FALSE]

\* apply_patches(model, patches): the loop stops at the first operation that raises
RECURSIVE ApplyPatches(_, _)
ApplyPatches(model, patches) ==
  IF patches = <<>> THEN [doc |-> model, raised |-> FALSE]
  ELSE LET r == ApplyOp(model, Head(patches))
       IN IF r.raised THEN r ELSE ApplyPatches(r.doc, Tail(patches))


(***************************************************************************)
(* State.                                                                  *)
(***************************************************************************)
VARIABLES
  \* SpecPatch: one apply_patches(model, patches) call, run op by op
  pstate,     \* "idle" | "running" | "returned" | "raised"
  pinit,      \* the document when the call started
  pbatch,     \* the patches argument
  pidx,       \* index of the operation the loop is at
  pdoc,       \* the document (the object model) as it is now
  \* Spec: the session hub, the flows and the /events publishers
  sessions,   \* hub._sessions, as the set of its keys
  queue,      \* SessionState.queue of each session
  models,     \* SessionState.models of each session: surface id -> object
  heap,       \* the dict objects handed out as a session's surface documents
  pubPc,      \* where the generator of GET /events stands, per session
  connected,  \* whether the subscriber of the session's stream is connected
  emitted,    \* the frames the generator has yielded, per session
  enqueued,   \* history: every message put on the session's queue, in order
  patched,    \* history: the push_update_and_apply calls that touched a document
  nops,       \* history: how many flow operations have run
  missed,     \* history: the hub calls by API callers that found no session
  \* SpecRpc: call_tool invocations and the tool server
  cpc,        \* where each call_tool invocation stands
  callId,     \* call.id of each invocation
  request,    \* the tool name and arguments of each invocation
  outcome,    \* what the invocation returned or raised
  postTask,   \* the state of post_task: none, pending, done, failed, cancelled
  ingress,    \* the POST /message request of each call, as the server sees it
  stream,     \* the GET /sse exchange of each call
  sclients,   \* server: _clients, as the set of streams whose queue it holds
  sq,         \* server: the queue q of each stream
  published,  \* history: the responses the server has broadcast
  skipped,    \* history: whether the call read a message carrying another id
  \* SpecA2A: one A2AClient.message_send call
  apc,        \* where the call is: "idle", "posted", "answered", "decode", "check",
              \* "extract", "done"
  aresp,      \* the HTTP response r: its status code and its body
  aout,       \* how the call ended: what it returned or raised
  \* the tool server as any client may use it (server.py)
  clients,    \* _clients: the streams whose queue is registered
  cq,         \* the queue q of each stream
  gen,        \* each stream: "none", "registered", "open" (gen() is running),
              \* "ended" (the stream is over, gen() not yet closed), "closed"
  sent,       \* the payloads gen() has yielded on each stream
  post,       \* each POST /message: where its handler is and the body it got
  reply,      \* the HTTP response each POST /message got
  nflood,     \* the requests the flooding client has sent before its current one
  \* the flows of main.py, each on its own surface
  fstate,     \* each flow's task: "idle", "run", "call" (awaiting a call), "done", "raised"
  fpc,        \* the statement the flow is at or is to run next
  floading,   \* status.loading of the flow's surface: "unset", "true", "false"
  \* _parse_sse_events on one stream of lines (mcp_client.py)
  lines,      \* history: the lines the iterator has handed over so far
  eof,        \* whether the iterator is exhausted
  event,      \* the local event
  data_lines, \* the local data_lines
  yielded     \* the (event, data) pairs yielded so far

patchVars == <<pstate, pinit, pbatch, pidx, pdoc>>
hubVars == <<sessions, queue, models, heap, pubPc, connected, emitted, enqueued,
            patched, nops, missed>>
rpcVars == <<cpc, callId, request, outcome, postTask, ingress, stream, sclients, sq,
            published, skipped>>
a2aVars == <<apc, aresp, aout>>
srvVars == <<clients, cq, gen, sent, post, reply, nflood>>
flowVars == <<fstate, fpc, floading>>
sseVars == <<lines, eof, event, data_lines, yielded>>
vars == <<pstate, pinit, pbatch, pidx, pdoc,
          sessions, queue, models, heap, pubPc, connected, emitted, enqueued,
          patched, nops, missed,
          cpc, callId, request, outcome, postTask, ingress, stream, sclients, sq,
          published, skipped,
          apc, aresp, aout,
          clients, cq, gen, sent, post, reply, nflood,
          fstate, fpc, floading,
          lines, eof, event, data_lines, yielded>>

(***************************************************************************)
(* Inputs of the patch engine.                                             *)
(***************************************************************************)
P(op, path, value) == [op |-> op, path |-> path, value |-> value]
True == Scal("true")
False == Scal("false")
StatusLoading == Str(<<Slash, "status", Slash, "loading">>)
LoadingDoc(b) == Dict("status" :> Dict("loading" :> b))

PatchDocs ==
  { EmptyDict,
    LoadingDoc(False),
    Dict("status" :> True),
    Dict("results" :> List(<<>>) @@ "status" :> Dict("loading" :> False)) }

PatchOps ==
  { P("replace", StatusLoading, True),
    P("add", Str(<<Slash, "results">>), List(<<>>)),
    P("replace", Str(<<Slash>>), Dict("results" :> True)),
    P("replace", Str(<<Slash>>), True),
    P("remove", Str(<<Slash, "status">>), None),
    P("replace", None, True),
    P("replace", Str(<<"status">>), True),
    P("replace", Str(<<"status", Slash, "loading">>), True),
    P("replace", Str(<<>>), EmptyDict),
    P("add", Str(<<Slash, "status", Slash, "loading", Slash, "results">>), False) }

RECURSIVE SeqsUpTo(_, _)
SeqsUpTo(S, n) ==
  IF n = 0 THEN {<<>>}
  ELSE LET shorter == SeqsUpTo(S, n - 1)
       IN shorter \cup {Append(q, x) : q \in shorter, x \in S}

PatchBatches == SeqsUpTo(PatchOps, MaxBatch)

(***************************************************************************)
(* SpecPatch: apply_patches run one loop iteration at a time.              *)
(***************************************************************************)
PatchCall ==
  /\ pstate = "idle"
  /\ \E doc \in PatchDocs, batch \in PatchBatches :
       /\ pinit' = doc
       /\ pdoc' = doc
       /\ pbatch' = batch
  /\ pidx' = 1
  /\ pstate' = "running"
  /\ UNCHANGED <<hubVars, rpcVars, a2aVars, srvVars, flowVars, sseVars>>

\* one iteration of `for p in patches`; a raise leaves the loop and the call
PatchStep ==
  /\ pstate = "running"
  /\ pidx <= Len(pbatch)
  /\ LET r == ApplyOp(pdoc, pbatch[pidx])
     IN /\ pdoc' = r.doc
        /\ IF r.raised
           THEN pstate' = "raised" /\ pidx' = pidx
           ELSE pstate' = "running" /\ pidx' = pidx + 1
  /\ UNCHANGED <<pinit, pbatch>>
  /\ UNCHANGED <<hubVars, rpcVars, a2aVars, srvVars, flowVars, sseVars>>

\* return model
PatchReturn ==
  /\ pstate = "running"
  /\ pidx > Len(pbatch)
  /\ pstate' = "returned"
  /\ UNCHANGED <<pinit, pbatch, pidx, pdoc>>
  /\ UNCHANGED <<hubVars, rpcVars, a2aVars, srvVars, flowVars, sseVars>>

PatchInit ==
  /\ pstate = "idle"
  /\ pinit = EmptyDict
  /\ pbatch = <<>>
  /\ pidx = 1
  /\ pdoc = EmptyDict

(***************************************************************************)
(* The session hub (a2ui.py) and the orchestrator's use of it (main.py).   *)
(* asyncio runs one task at a time and switches tasks only where a task    *)
(* suspends.  hub._lock is never held across a suspension, so acquiring it *)
(* never waits, and the queue is unbounded, so queue.put never waits: each *)
(* hub method below runs from call to return without another task running. *)
(***************************************************************************)
\* str(uuid.uuid4()) draws a session id that no session has yet
SessionIds == {"sid-a", "sid-b"}
Surfaces == {"home", "toeslagen"}

\* _home_surface_model() and _empty_surface_model(message), up to the texts
SurfaceModel == Dict("status" :> Dict("loading" :> False) @@ "results" :> List(<<>>))

\* surface_open(surface_id, title, data_model): dataModel is the object passed in
surface_open(surface_id, ref) ==
  [kind |-> "surface/open", surfaceId |-> surface_id, dataModel |-> ref]

\* data_model_update(surface_id, patches)
data_model_update(surface_id, patches) ==
  [kind |-> "dataModelUpdate", surfaceId |-> surface_id, patches |-> patches]

\* The patches arguments of push_update_and_apply: the batch _set_status sends
\* for loading=True, and a batch a caller can pass in which a well-formed
\* operation is followed by one whose pointer lacks its leading "/" (the flows
\* of main.py themselves only send literal, well-formed pointers).
SetStatusBatch == <<P("replace", StatusLoading, True)>>
BadTailBatch == <<P("replace", Str(<<Slash, "results">>), List(<<True>>)),
                  P("replace", Str(<<"status">>), None)>>
HubBatches == {SetStatusBatch, BadTailBatch}

\* The surfaces nav/open and the flows open besides home
OpenTargets == {"toeslagen"}

\* A variant of queue.put that puts the message at the front.
QueuePutFront(q, msg) == <<msg>> \o q

\* s.queue.put(msg) on the unbounded asyncio.Queue
QueuePut(q, msg) == Append(q, msg)

\* hub.get(sid): whether a session is returned
HubGet(sid) == sid \in sessions

\* The message as put on the queue; n is its ordinal among the session's messages
\* (history only, no field of the message).
Stamp(sid, msg) == [n |-> Len(enqueued[sid]) + 1, msg |-> msg]

\* JSONResponse(content=msg).body: the frame, serialised when it is yielded
Frame(sid, m) ==
  IF m.msg.kind = "surface/open"
  THEN [n |-> m.n, kind |-> m.msg.kind, surfaceId |-> m.msg.surfaceId,
        dataModel |-> heap[sid][m.msg.dataModel]]
  ELSE [n |-> m.n, kind |-> m.msg.kind, surfaceId |-> m.msg.surfaceId,
        patches |-> m.msg.patches]

CreatedFrame(sid) == [n |-> 0, kind |-> "session/created", sessionId |-> sid]

CanRun == nops < MaxOps

\* A variant of GET /events that gives a returning subscriber the session it
\* had before (a new publisher on the registered session) and creates a
\* session only for a first connection.
EventsReuse ==
  \/ \E sid \in sessions :
       /\ pubPc[sid] = "done"
       /\ pubPc' = [pubPc EXCEPT ![sid] = "start"]
       /\ connected' = [connected EXCEPT ![sid] = TRUE]
       /\ UNCHANGED <<sessions, queue, models, heap, emitted, enqueued, patched, nops>>
       /\ UNCHANGED <<missed, patchVars, rpcVars, a2aVars, srvVars, flowVars, sseVars>>
  \/ \E sid \in SessionIds \ sessions :
       /\ pubPc[sid] = "none"
       /\ sessions' = sessions \cup {sid}
       /\ pubPc' = [pubPc EXCEPT ![sid] = "start"]
       /\ connected' = [connected EXCEPT ![sid] = TRUE]
       /\ UNCHANGED <<queue, models, heap, emitted, enqueued, patched, nops>>
       /\ UNCHANGED <<missed, patchVars, rpcVars, a2aVars, srvVars, flowVars, sseVars>>

\* GET /events: hub.create() registers a fresh session; the response streams gen()
Events ==
  \E sid \in SessionIds \ sessions :
    /\ pubPc[sid] = "none"
    /\ sessions' = sessions \cup {sid}
    /\ pubPc' = [pubPc EXCEPT ![sid] = "start"]
    /\ connected' = [connected EXCEPT ![sid] = TRUE]
    /\ UNCHANGED <<queue, models, heap, emitted, enqueued, patched, nops>>
    /\ UNCHANGED <<missed, patchVars, rpcVars, a2aVars, srvVars, flowVars, sseVars>>

\* A variant of gen() that goes on to the home surface without yielding the
\* session/created frame.
GenStartSilent(sid) ==
  /\ pubPc[sid] = "start"
  /\ pubPc' = [pubPc EXCEPT ![sid] = "open"]
  /\ UNCHANGED <<sessions, queue, models, heap, connected, emitted, enqueued, patched, nops>>
  /\ UNCHANGED <<missed, patchVars, rpcVars, a2aVars, srvVars, flowVars, sseVars>>

\* gen(): yield the session/created frame
GenStart(sid) ==
  /\ pubPc[sid] = "start"
  /\ emitted' = [emitted EXCEPT ![sid] = Append(@, CreatedFrame(sid))]
  /\ pubPc' = [pubPc EXCEPT ![sid] = "open"]
  /\ UNCHANGED <<sessions, queue, models, heap, connected, enqueued, patched, nops>>
  /\ UNCHANGED <<missed, patchVars, rpcVars, a2aVars, srvVars, flowVars, sseVars>>

\* A variant of _send_open_surface that announces the surface without storing
\* its initial model as the surface's document.
OpenSurfaceUnstored(sid, surface_id) ==
  IF ~HubGet(sid)
  THEN UNCHANGED <<queue, models, heap, enqueued>>
  ELSE LET ref == Len(heap[sid]) + 1
           m == Stamp(sid, surface_open(surface_id, ref))
       IN /\ heap' = [heap EXCEPT ![sid] = Append(@, SurfaceModel)]
          /\ models' = [models EXCEPT ![sid] =
               IF surface_id \in DOMAIN @ THEN @ ELSE Put(@, surface_id, ref)]
          /\ queue' = [queue EXCEPT ![sid] = QueuePut(@, m)]
          /\ enqueued' = [enqueued EXCEPT ![sid] = Append(@, m)]

\* A variant of _send_open_surface that makes the opened surface the only one
\* the session has a document for.
OpenSurfaceAlone(sid, surface_id) ==
  IF ~HubGet(sid)
  THEN UNCHANGED <<queue, models, heap, enqueued>>
  ELSE LET ref == Len(heap[sid]) + 1
           m == Stamp(sid, surface_open(surface_id, ref))
       IN /\ heap' = [heap EXCEPT ![sid] = Append(@, SurfaceModel)]
          /\ models' = [models EXCEPT ![sid] = [x \in {surface_id} |-> ref]]
          /\ queue' = [queue EXCEPT ![sid] = QueuePut(@, m)]
          /\ enqueued' = [enqueued EXCEPT ![sid] = Append(@, m)]

\* _send_open_surface(sid, surface_id, title, initial_model)
OpenSurfaceEffect(sid, surface_id) ==
  IF ~HubGet(sid)
  THEN UNCHANGED <<queue, models, heap, enqueued>>
  ELSE LET ref == Len(heap[sid]) + 1
           m == Stamp(sid, surface_open(surface_id, ref))
       IN /\ heap' = [heap EXCEPT ![sid] = Append(@, SurfaceModel)]
          /\ models' = [models EXCEPT ![sid] = Put(@, surface_id, ref)]
          /\ queue' = [queue EXCEPT ![sid] = QueuePut(@, m)]
          /\ enqueued' = [enqueued EXCEPT ![sid] = Append(@, m)]

\* gen(): await _send_open_surface(session_id, "home", ...), up to the first
\* await request.is_disconnected()
GenOpenHome(sid) ==
  /\ pubPc[sid] = "open"
  /\ OpenSurfaceEffect(sid, "home")
  /\ pubPc' = [pubPc EXCEPT ![sid] = "check"]
  /\ UNCHANGED <<sessions, connected, emitted, patched, nops>>
  /\ UNCHANGED <<missed, patchVars, rpcVars, a2aVars, srvVars, flowVars, sseVars>>

\* A variant of gen() that goes on polling whatever is_disconnected() answers.
GenCheckBlind(sid) ==
  /\ pubPc[sid] = "check"
  /\ pubPc' = [pubPc EXCEPT ![sid] = "wait"]
  /\ UNCHANGED <<sessions, queue, models, heap, connected, emitted, enqueued, patched, nops>>
  /\ UNCHANGED <<missed, patchVars, rpcVars, a2aVars, srvVars, flowVars, sseVars>>

\* gen(): if await request.is_disconnected(): break
GenCheck(sid) ==
  /\ pubPc[sid] = "check"
  /\ pubPc' = [pubPc EXCEPT ![sid] = IF connected[sid] THEN "wait" ELSE "done"]
  /\ UNCHANGED <<sessions, queue, models, heap, connected, emitted, enqueued, patched, nops>>
  /\ UNCHANGED <<missed, patchVars, rpcVars, a2aVars, srvVars, flowVars, sseVars>>

\* gen(): wait_for(session.queue.get(), 1.0) returns a message, which is yielded
GenDequeue(sid) ==
  /\ pubPc[sid] = "wait"
  /\ queue[sid] # <<>>
  /\ emitted' = [emitted EXCEPT ![sid] = Append(@, Frame(sid, Head(queue[sid])))]
  /\ queue' = [queue EXCEPT ![sid] = Tail(@)]
  /\ pubPc' = [pubPc EXCEPT ![sid] = "check"]
  /\ UNCHANGED <<sessions, models, heap, connected, enqueued, patched, nops>>
  /\ UNCHANGED <<missed, patchVars, rpcVars, a2aVars, srvVars, flowVars, sseVars>>

\* A variant of gen() that ends the stream when a poll times out.
GenTimeoutEnds(sid) ==
  /\ pubPc[sid] = "wait"
  /\ queue[sid] = <<>>
  /\ pubPc' = [pubPc EXCEPT ![sid] = "done"]
  /\ UNCHANGED <<sessions, queue, models, heap, connected, emitted, enqueued, patched, nops>>
  /\ UNCHANGED <<missed, patchVars, rpcVars, a2aVars, srvVars, flowVars, sseVars>>

\* gen(): wait_for times out on the empty queue; continue
GenTimeout(sid) ==
  /\ pubPc[sid] = "wait"
  /\ queue[sid] = <<>>
  /\ pubPc' = [pubPc EXCEPT ![sid] = "check"]
  /\ UNCHANGED <<sessions, queue, models, heap, connected, emitted, enqueued, patched, nops>>
  /\ UNCHANGED <<missed, patchVars, rpcVars, a2aVars, srvVars, flowVars, sseVars>>

\* the subscriber closes its connection
Disconnect(sid) ==
  /\ pubPc[sid] \notin {"none", "done"}
  /\ connected[sid]
  /\ connected' = [connected EXCEPT ![sid] = FALSE]
  /\ UNCHANGED <<sessions, queue, models, heap, pubPc, emitted, enqueued, patched, nops>>
  /\ UNCHANGED <<missed, patchVars, rpcVars, a2aVars, srvVars, flowVars, sseVars>>

\* client_event / a flow: await _send_open_surface(sid, surface_id, ...)
SendOpenSurface(sid, surface_id) ==
  /\ CanRun
  /\ nops' = nops + 1
  /\ OpenSurfaceEffect(sid, surface_id)
  /\ UNCHANGED <<sessions, pubPc, connected, emitted, patched>>
  /\ UNCHANGED <<missed, patchVars, rpcVars, a2aVars, srvVars, flowVars, sseVars>>

\* A variant of get_model that hands out a new empty document on every call.
get_modelAnew(sid, surface_id) ==
  LET ref == Len(heap[sid]) + 1
  IN [ref |-> ref,
      heap |-> Append(heap[sid], EmptyDict),
      models |-> Put(models[sid], surface_id, ref)]

\* SessionState.get_model(surface_id): the document it returns (ref) and the
\* session's documents and surface table after the call
get_model(sid, surface_id) ==
  IF surface_id \notin DOMAIN models[sid]
  THEN LET ref == Len(heap[sid]) + 1
       IN [ref |-> ref,
           heap |-> Append(heap[sid], EmptyDict),
           models |-> Put(models[sid], surface_id, ref)]
  ELSE [ref |-> models[sid][surface_id], heap |-> heap[sid], models |-> models[sid]]

\* A variant of push_update_and_apply that announces the patches without
\* applying them to the surface document.
PushUpdateNoApply(sid, surface_id, patches) ==
  IF ~HubGet(sid)
  THEN UNCHANGED <<queue, models, heap, enqueued, patched>>
  ELSE LET fresh == surface_id \notin DOMAIN models[sid]
           ref == IF fresh THEN Len(heap[sid]) + 1 ELSE models[sid][surface_id]
           before == IF fresh THEN EmptyDict ELSE heap[sid][ref]
           m == Stamp(sid, data_model_update(surface_id, patches))
       IN /\ heap' = [heap EXCEPT ![sid] = IF fresh THEN Append(@, before) ELSE @]
          /\ models' = [models EXCEPT ![sid] = Put(@, surface_id, ref)]
          /\ patched' = [patched EXCEPT ![sid] =
               Append(@, [surfaceId |-> surface_id, patches |-> patches,
                          raised |-> FALSE, changed |-> FALSE])]
          /\ queue' = [queue EXCEPT ![sid] = QueuePut(@, m)]
          /\ enqueued' = [enqueued EXCEPT ![sid] = Append(@, m)]

\* hub.push_update_and_apply(sid, surface_id, patches), from call to return or
\* raise: what it does to the session it finds
PushUpdateAndApplyEffect(sid, surface_id, patches) ==
  IF ~HubGet(sid)
  THEN UNCHANGED <<queue, models, heap, enqueued, patched>>
  ELSE LET g == get_model(sid, surface_id)
           before == g.heap[g.ref]
           r == ApplyPatches(before, patches)
           m == Stamp(sid, data_model_update(surface_id, patches))
       IN /\ heap' = [heap EXCEPT ![sid] = [g.heap EXCEPT ![g.ref] = r.doc]]
          /\ models' = [models EXCEPT ![sid] = g.models]
          /\ patched' = [patched EXCEPT ![sid] =
               IF r.raised /\ r.doc = before THEN @
               ELSE Append(@, [surfaceId |-> surface_id, patches |-> patches,
                                raised |-> r.raised, changed |-> r.doc # before])]
          /\ IF r.raised
             THEN UNCHANGED <<queue, enqueued>>
             ELSE /\ queue' = [queue EXCEPT ![sid] = QueuePut(@, m)]
                  /\ enqueued' = [enqueued EXCEPT ![sid] = Append(@, m)]

\* a flow awaits hub.push_update_and_apply(sid, surface_id, patches)
PushUpdateAndApply(sid, surface_id, patches) ==
  /\ CanRun
  /\ nops' = nops + 1
  /\ PushUpdateAndApplyEffect(sid, surface_id, patches)
  /\ UNCHANGED <<sessions, pubPc, connected, emitted>>
  /\ UNCHANGED <<missed, patchVars, rpcVars, a2aVars, srvVars, flowVars, sseVars>>

(***************************************************************************)
(* The hub's API as any caller may use it: drop, push and                  *)
(* push_update_and_apply with a session id of the caller's choice.  The    *)
(* orchestrator itself never calls drop, and calls push only from          *)
(* _send_open_surface.                                                     *)
(***************************************************************************)
\* the messages a caller hands to hub.push
PushMsgs == {data_model_update("home", SetStatusBatch)}

\* the patches a caller hands to hub.push_update_and_apply
ApiBatches == {SetStatusBatch}

\* A variant of push that queues the message on the channel of a session that
\* is no longer registered.
PushEffectLate(sid, msg) ==
  IF ~HubGet(sid) /\ pubPc[sid] = "none"
  THEN UNCHANGED <<queue, enqueued>>
  ELSE LET m == Stamp(sid, msg)
       IN /\ queue' = [queue EXCEPT ![sid] = QueuePut(@, m)]
          /\ enqueued' = [enqueued EXCEPT ![sid] = Append(@, m)]

\* hub.push(sid, msg)
PushEffect(sid, msg) ==
  IF ~HubGet(sid)
  THEN UNCHANGED <<queue, enqueued>>
  ELSE LET m == Stamp(sid, msg)
       IN /\ queue' = [queue EXCEPT ![sid] = QueuePut(@, m)]
          /\ enqueued' = [enqueued EXCEPT ![sid] = Append(@, m)]

\* what a call that found no session adds to the history: the session id was
\* never registered, or it was registered and has been dropped
Miss(op, sid) ==
  IF HubGet(sid) THEN missed
  ELSE missed \cup {[op |-> op, sid |-> sid, dropped |-> pubPc[sid] # "none"]}

\* A variant of drop that empties the registry.
ApiDropAll(sid) ==
  /\ CanRun
  /\ nops' = nops + 1
  /\ sessions' = {}
  /\ UNCHANGED <<queue, models, heap, pubPc, connected, emitted, enqueued, patched, missed>>
  /\ UNCHANGED <<patchVars, rpcVars, a2aVars, srvVars, flowVars, sseVars>>

\* a caller awaits hub.drop(sid): self._sessions.pop(sid, None)
ApiDrop(sid) ==
  /\ CanRun
  /\ nops' = nops + 1
  /\ sessions' = sessions \ {sid}
  /\ UNCHANGED <<queue, models, heap, pubPc, connected, emitted, enqueued, patched, missed>>
  /\ UNCHANGED <<patchVars, rpcVars, a2aVars, srvVars, flowVars, sseVars>>

\* a caller awaits hub.push(sid, msg)
ApiPush(sid, msg) ==
  /\ CanRun
  /\ nops' = nops + 1
  /\ PushEffect(sid, msg)
  /\ missed' = Miss("push", sid)
  /\ UNCHANGED <<sessions, models, heap, pubPc, connected, emitted, patched>>
  /\ UNCHANGED <<patchVars, rpcVars, a2aVars, srvVars, flowVars, sseVars>>

\* a caller awaits hub.push_update_and_apply(sid, surface_id, patches)
ApiPushUpdateAndApply(sid, surface_id, patches) ==
  /\ CanRun
  /\ nops' = nops + 1
  /\ PushUpdateAndApplyEffect(sid, surface_id, patches)
  /\ missed' = Miss("push_update_and_apply", sid)
  /\ UNCHANGED <<sessions, pubPc, connected, emitted>>
  /\ UNCHANGED <<patchVars, rpcVars, a2aVars, srvVars, flowVars, sseVars>>

HubInit ==
  /\ sessions = {}
  /\ queue = [sid \in SessionIds |-> <<>>]
  /\ models = [sid \in SessionIds |-> NoKeys]
  /\ heap = [sid \in SessionIds |-> <<>>]
  /\ pubPc = [sid \in SessionIds |-> "none"]
  /\ connected = [sid \in SessionIds |-> FALSE]
  /\ emitted = [sid \in SessionIds |-> <<>>]
  /\ enqueued = [sid \in SessionIds |-> <<>>]
  /\ patched = [sid \in SessionIds |-> <<>>]
  /\ nops = 0
  /\ missed = {}

(***************************************************************************)
(* The MCP client (mcp_client.py: MCPClient.call_tool) and the tool server *)
(* (services/mcp_tools/server.py).  Each invocation of call_tool is one    *)
(* member of Calls; invocations run concurrently.                          *)
(***************************************************************************)
Calls == {"call-1", "call-2"}
\* the values str(uuid.uuid4()) can draw
Tokens == {"id-1", "id-2"}
ToolNames == {"rules_lookup", "no_such_tool"}
KnownTools == {"rules_lookup"}
ToolArgs == {"arg-1", "arg-2"}
SseQueueMax == 100
NoOutcome == [kind |-> "none", value |-> None]

\* MCPToolCall(...).to_jsonrpc()
to_jsonrpc(id, name, arguments) ==
  [id |-> id, method |-> "tools/call", name |-> name, arguments |-> arguments]

\* _call_tool(tool_name, arguments): the tool's result, or that it raised
ToolKnown(tool_name) == tool_name \in KnownTools
ToolResult(tool_name, arguments) == [tool |-> tool_name, of |-> arguments]

\* message(request): the JSON-RPC response built for a parsed request msg
ServerResponse(msg) ==
  IF msg.method # "tools/call"
  THEN [id |-> msg.id, error |-> Scal("Method not found"), result |-> None]
  ELSE IF ToolKnown(msg.name)
       THEN [id |-> msg.id, error |-> None, result |-> ToolResult(msg.name, msg.arguments)]
       ELSE [id |-> msg.id, error |-> Scal("Unknown tool"), result |-> None]

\* _publish_sse(payload): put_nowait on every client queue, dropping on QueueFull
PublishSse(payload) ==
  [c \in Calls |->
     IF c \in sclients /\ Len(sq[c]) < SseQueueMax THEN Append(sq[c], payload) ELSE sq[c]]

\* A variant of the id comparison that accepts every message.
MatchesAny(obj, id) == TRUE

\* wait_for_response: obj.get("id") == call.id
Matches(obj, id) == obj.id = id

\* A variant that returns obj.get("result") without looking at the error field.
ResponseOutcomeLenient(obj) == [kind |-> "result", value |-> obj.result]

\* wait_for_response, for the message whose id matches: raise
\* RuntimeError(obj["error"]) when the error field is there and not None, else
\* return obj.get("result")
ResponseOutcome(obj) ==
  IF obj.error # None
  THEN [kind |-> "RuntimeError", value |-> obj.error]
  ELSE [kind |-> "result", value |-> obj.result]

\* A variant of the finally block that leaves the POST task alone.
FinallyKeepPost(task) == task

\* finally: if not post_task.done(): post_task.cancel()
FinallyPost(task) == IF task = "pending" THEN "cancelled" ELSE task

\* call_tool(name, arguments): draw call.id and send GET /sse
CallTool(c) ==
  /\ cpc[c] = "idle"
  /\ \E id \in Tokens \ {callId[k] : k \in Calls}, name \in ToolNames, arguments \in ToolArgs :
       /\ callId' = [callId EXCEPT ![c] = id]
       /\ request' = [request EXCEPT ![c] = to_jsonrpc(id, name, arguments)]
  /\ cpc' = [cpc EXCEPT ![c] = "opening"]
  /\ stream' = [stream EXCEPT ![c] = "requested"]
  /\ UNCHANGED <<outcome, postTask, ingress, sclients, sq, published, skipped>>
  /\ UNCHANGED <<patchVars, hubVars, a2aVars, srvVars, flowVars, sseVars>>

\* server, sse(): register the queue and start the streaming response
Sse(c) ==
  /\ stream[c] = "requested"
  /\ sclients' = sclients \cup {c}
  /\ stream' = [stream EXCEPT ![c] = "open"]
  /\ UNCHANGED <<cpc, callId, request, outcome, postTask, ingress, sq, published, skipped>>
  /\ UNCHANGED <<patchVars, hubVars, a2aVars, srvVars, flowVars, sseVars>>

\* A variant of call_tool that creates post_task as soon as the GET is sent,
\* without waiting for the stream context to be entered.
StreamOpenedEarly(c) ==
  /\ cpc[c] = "opening"
  /\ stream[c] \in {"requested", "open", "ended"}
  /\ postTask' = [postTask EXCEPT ![c] = "pending"]
  /\ cpc' = [cpc EXCEPT ![c] = "waiting"]
  /\ UNCHANGED <<callId, request, outcome, ingress, stream, sclients, sq, published, skipped>>
  /\ UNCHANGED <<patchVars, hubVars, a2aVars, srvVars, flowVars, sseVars>>

\* call_tool: the stream context is entered; post_task is created and
\* wait_for(wait_for_response(), timeout_s) starts
StreamOpened(c) ==
  /\ cpc[c] = "opening"
  /\ stream[c] \in {"open", "ended"}
  /\ postTask' = [postTask EXCEPT ![c] = "pending"]
  /\ cpc' = [cpc EXCEPT ![c] = "waiting"]
  /\ UNCHANGED <<callId, request, outcome, ingress, stream, sclients, sq, published, skipped>>
  /\ UNCHANGED <<patchVars, hubVars, a2aVars, srvVars, flowVars, sseVars>>

\* call_tool: client.stream("GET", sse_url) raises (the connection fails) before
\* the stream context is entered; the error leaves call_tool as it is
OpenFail(c) ==
  /\ cpc[c] = "opening"
  /\ stream[c] = "requested"
  /\ outcome' = [outcome EXCEPT ![c] = [kind |-> "HTTPError", value |-> Scal("GET /sse")]]
  /\ stream' = [stream EXCEPT ![c] = "closed"]
  /\ cpc' = [cpc EXCEPT ![c] = "done"]
  /\ UNCHANGED <<callId, request, postTask, ingress, sclients, sq, published, skipped>>
  /\ UNCHANGED <<patchVars, hubVars, a2aVars, srvVars, flowVars, sseVars>>

\* post_call(): client.post(message_url, json=req) reaches the server
PostSend(c) ==
  /\ postTask[c] = "pending"
  /\ ingress[c] = "none"
  /\ ingress' = [ingress EXCEPT ![c] = "received"]
  /\ UNCHANGED <<cpc, callId, request, outcome, postTask, stream, sclients, sq, published, skipped>>
  /\ UNCHANGED <<patchVars, hubVars, a2aVars, srvVars, flowVars, sseVars>>

\* server, message(): after _call_tool's sleep, broadcast the response and return it
Message(c) ==
  /\ ingress[c] = "received"
  /\ LET resp == ServerResponse(request[c])
     IN /\ sq' = PublishSse(resp)
        /\ published' = published \cup {resp}
  /\ ingress' = [ingress EXCEPT ![c] = "answered"]
  /\ UNCHANGED <<cpc, callId, request, outcome, postTask, stream, sclients, skipped>>
  /\ UNCHANGED <<patchVars, hubVars, a2aVars, srvVars, flowVars, sseVars>>

\* post_call(): the 200 response arrives; raise_for_status() passes
PostDone(c) ==
  /\ postTask[c] = "pending"
  /\ ingress[c] = "answered"
  /\ postTask' = [postTask EXCEPT ![c] = "done"]
  /\ UNCHANGED <<cpc, callId, request, outcome, ingress, stream, sclients, sq, published, skipped>>
  /\ UNCHANGED <<patchVars, hubVars, a2aVars, srvVars, flowVars, sseVars>>

\* post_call(): client.post or raise_for_status raises (connection error, non-2xx);
\* the exception stays in post_task, which nothing awaits
PostFail(c) ==
  /\ postTask[c] = "pending"
  /\ postTask' = [postTask EXCEPT ![c] = "failed"]
  /\ UNCHANGED <<cpc, callId, request, outcome, ingress, stream, sclients, sq, published, skipped>>
  /\ UNCHANGED <<patchVars, hubVars, a2aVars, srvVars, flowVars, sseVars>>

\* A variant of leaving wait_for that does not close the stream context.
LeaveStreamOpen(c, result) ==
  /\ outcome' = [outcome EXCEPT ![c] = result]
  /\ postTask' = [postTask EXCEPT ![c] = FinallyPost(@)]
  /\ stream' = stream
  /\ cpc' = [cpc EXCEPT ![c] = "done"]

\* leaving wait_for: the finally block, then the stream and client contexts close
Leave(c, result) ==
  /\ outcome' = [outcome EXCEPT ![c] = result]
  /\ postTask' = [postTask EXCEPT ![c] = FinallyPost(@)]
  /\ stream' = [stream EXCEPT ![c] = "closed"]
  /\ cpc' = [cpc EXCEPT ![c] = "done"]

\* wait_for_response: one message event read from the stream
ReadEvent(c) ==
  /\ cpc[c] = "waiting"
  /\ sq[c] # <<>>
  /\ sq' = [sq EXCEPT ![c] = Tail(@)]
  /\ LET obj == Head(sq[c])
     IN /\ skipped' = [skipped EXCEPT ![c] = @ \/ obj.id # callId[c]]
        /\ IF ~Matches(obj, callId[c])
           THEN UNCHANGED <<cpc, outcome, postTask, stream>>
           ELSE Leave(c, ResponseOutcome(obj))
  /\ UNCHANGED <<callId, request, ingress, sclients, published>>
  /\ UNCHANGED <<patchVars, hubVars, a2aVars, srvVars, flowVars, sseVars>>

\* server side: the stream ends (the server stops or the connection drops)
StreamEnd(c) ==
  /\ stream[c] = "open"
  /\ stream' = [stream EXCEPT ![c] = "ended"]
  /\ UNCHANGED <<cpc, callId, request, outcome, postTask, ingress, sclients, sq, published, skipped>>
  /\ UNCHANGED <<patchVars, hubVars, a2aVars, srvVars, flowVars, sseVars>>

\* A variant in which the exhausted stream is reported as a timeout.
EndOfStreamAsTimeout == [kind |-> "TimeoutError", value |-> Scal("none")]

\* raise RuntimeError("SSE stream ended without response")
EndOfStreamOutcome ==
  [kind |-> "RuntimeError", value |-> Scal("SSE stream ended without response")]

\* wait_for_response: the stream is exhausted
ReadEnd(c) ==
  /\ cpc[c] = "waiting"
  /\ stream[c] = "ended"
  /\ sq[c] = <<>>
  /\ Leave(c, EndOfStreamOutcome)
  /\ UNCHANGED <<callId, request, ingress, sclients, sq, published, skipped>>
  /\ UNCHANGED <<patchVars, hubVars, a2aVars, srvVars, flowVars, sseVars>>

\* wait_for: timeout_s elapses
Timeout(c) ==
  /\ cpc[c] = "waiting"
  /\ Leave(c, [kind |-> "TimeoutError", value |-> None])
  /\ UNCHANGED <<callId, request, ingress, sclients, sq, published, skipped>>
  /\ UNCHANGED <<patchVars, hubVars, a2aVars, srvVars, flowVars, sseVars>>

\* server, sse() gen(): finally: _clients.remove(q)
SseCleanup(c) ==
  /\ stream[c] \in {"ended", "closed"}
  /\ c \in sclients
  /\ sclients' = sclients \ {c}
  /\ UNCHANGED <<cpc, callId, request, outcome, postTask, ingress, stream, sq, published, skipped>>
  /\ UNCHANGED <<patchVars, hubVars, a2aVars, srvVars, flowVars, sseVars>>

RpcInit ==
  /\ cpc = [c \in Calls |-> "idle"]
  /\ callId = [c \in Calls |-> "none"]
  /\ request = [c \in Calls |-> to_jsonrpc("none", "none", "none")]
  /\ outcome = [c \in Calls |-> NoOutcome]
  /\ postTask = [c \in Calls |-> "none"]
  /\ ingress = [c \in Calls |-> "none"]
  /\ stream = [c \in Calls |-> "none"]
  /\ sclients = {}
  /\ sq = [c \in Calls |-> <<>>]
  /\ published = {}
  /\ skipped = [c \in Calls |-> FALSE]

(***************************************************************************)
(* The A2A client (a2a_client.py: A2AClient.message_send).  The call posts *)
(* one JSON-RPC envelope and then handles the response r in four steps:    *)
(* r.raise_for_status(), r.json(), the test for an error field, and the    *)
(* extraction of result.data.                                              *)
(***************************************************************************)
\* the status codes a server answers with
StatusCodes == {200, 201, 302, 404, 500}

\* a response body that is not JSON
NotJson == [raw |-> "<html>"]

\* a data payload
Answer == Dict("answer" :> Scal("ok"))

\* the bodies a server answers with
Bodies ==
  { Dict("result" :> Dict("data" :> Answer)),
    Dict("result" :> Dict("data" :> EmptyDict)),
    Dict("result" :> Dict("data" :> None)),
    Dict("result" :> Dict("data" :> False)),
    Dict("result" :> Dict("data" :> List(<<>>))),
    Dict("result" :> Dict("kind" :> Scal("message"))),
    Dict("result" :> EmptyDict),
    Dict("result" :> None),
    Dict("result" :> Scal("ok")),
    EmptyDict,
    Dict("error" :> Dict("code" :> Scal("-32601"))),
    Dict("error" :> Scal("None")),
    Dict("error" :> None @@ "result" :> Dict("data" :> Answer)),
    List(<<>>),
    NotJson }

\* Response.is_success, which raise_for_status() tests
IsSuccess(status) == 200 <= status /\ status <= 299

\* A variant of the status test that lets client errors through.
RaisesForStatusServerOnly(status) == status >= 500

\* r.raise_for_status() raises
RaisesForStatus(status) == ~IsSuccess(status)

\* bool(v) is False
Falsy(v) == v \in {None, False, EmptyDict, List(<<>>), Scal("")}

\* str(v), as the f-string renders the error value: None gives "None", a string
\* gives itself, a mapping gives its repr
PyStr(v) ==
  IF v = None THEN [text |-> "None"]
  ELSE IF IsDict(v) THEN [repr |-> v]
  ELSE [text |-> v.s]

\* A variant that treats an error field holding null as no error.
HasErrorValue(data) ==
  IsDict(data) /\ "error" \in DOMAIN data.d /\ data.d["error"] # None

\* "error" in data
HasErrorField(data) == IsDict(data) /\ "error" \in DOMAIN data.d

\* raise RuntimeError(f"A2A error: {data['error']}")
ErrorOutcome(data) ==
  [kind |-> "RuntimeError",
   value |-> [prefix |-> "A2A error: ", str |-> PyStr(data.d["error"])]]

AttributeError == [kind |-> "AttributeError", value |-> None]

\* d.get(key)
DictGet(d, key) == IF key \in DOMAIN d.d THEN d.d[key] ELSE None

\* A variant of the extraction without the two `or {}` fallbacks.
ExtractStrict(data) ==
  IF ~IsDict(data) THEN AttributeError
  ELSE IF ~IsDict(DictGet(data, "result")) THEN AttributeError
  ELSE [kind |-> "data", value |-> DictGet(DictGet(data, "result"), "data")]

\* return (data.get("result") or {}).get("data") or {}
Extract(data) ==
  IF ~IsDict(data) THEN AttributeError
  ELSE LET result == DictGet(data, "result")
           holder == IF Falsy(result) THEN EmptyDict ELSE result
       IN IF ~IsDict(holder) THEN AttributeError
          ELSE LET payload == DictGet(holder, "data")
               IN [kind |-> "data",
                   value |-> IF Falsy(payload) THEN EmptyDict ELSE payload]

NoResponse == [status |-> 0, body |-> NotJson]

\* message_send: await client.post(self.base_url, json=rpc) is sent
MessageSend ==
  /\ apc = "idle"
  /\ apc' = "posted"
  /\ UNCHANGED <<aresp, aout>>
  /\ UNCHANGED <<patchVars, hubVars, rpcVars, srvVars, flowVars, sseVars>>

\* the agent's server answers; client.post returns r
A2ARespond ==
  /\ apc = "posted"
  /\ \E status \in StatusCodes, body \in Bodies :
       aresp' = [status |-> status, body |-> body]
  /\ apc' = "answered"
  /\ UNCHANGED aout
  /\ UNCHANGED <<patchVars, hubVars, rpcVars, srvVars, flowVars, sseVars>>

\* client.post raises (no connection, or timeout_s elapses); nothing catches it
A2APostFail ==
  /\ apc = "posted"
  /\ aout' = [kind |-> "HTTPError", value |-> Scal("POST")]
  /\ apc' = "done"
  /\ UNCHANGED aresp
  /\ UNCHANGED <<patchVars, hubVars, rpcVars, srvVars, flowVars, sseVars>>

\* r.raise_for_status()
A2ARaiseForStatus ==
  /\ apc = "answered"
  /\ IF RaisesForStatus(aresp.status)
     THEN /\ aout' = [kind |-> "HTTPStatusError", value |-> [status |-> aresp.status]]
          /\ apc' = "done"
     ELSE /\ apc' = "decode"
          /\ UNCHANGED aout
  /\ UNCHANGED aresp
  /\ UNCHANGED <<patchVars, hubVars, rpcVars, srvVars, flowVars, sseVars>>

\* data = r.json()
A2ADecode ==
  /\ apc = "decode"
  /\ IF aresp.body = NotJson
     THEN /\ aout' = [kind |-> "JSONDecodeError", value |-> None]
          /\ apc' = "done"
     ELSE /\ apc' = "check"
          /\ UNCHANGED aout
  /\ UNCHANGED aresp
  /\ UNCHANGED <<patchVars, hubVars, rpcVars, srvVars, flowVars, sseVars>>

\* if "error" in data: raise RuntimeError(...)
A2ACheckError ==
  /\ apc = "check"
  /\ IF HasErrorField(aresp.body)
     THEN /\ aout' = ErrorOutcome(aresp.body)
          /\ apc' = "done"
     ELSE /\ apc' = "extract"
          /\ UNCHANGED aout
  /\ UNCHANGED aresp
  /\ UNCHANGED <<patchVars, hubVars, rpcVars, srvVars, flowVars, sseVars>>

\* return (data.get("result") or {}).get("data") or {}
A2AExtract ==
  /\ apc = "extract"
  /\ aout' = Extract(aresp.body)
  /\ apc' = "done"
  /\ UNCHANGED aresp
  /\ UNCHANGED <<patchVars, hubVars, rpcVars, srvVars, flowVars, sseVars>>

A2AInit ==
  /\ apc = "idle"
  /\ aresp = NoResponse
  /\ aout = NoOutcome

(***************************************************************************)
(* The tool server (server.py) as any client may use it: GET /sse opens a  *)
(* stream with a queue of its own, POST /message takes any body.  message()*)
(* runs without suspending up to `await _call_tool`, which sleeps; the     *)
(* broadcast and the return after it run without suspending.               *)
(***************************************************************************)
Streams == {"stream-1", "stream-2"}
Posts == {"post-1", "post-2"}

Req(id, method, params) == Dict("id" :> id @@ "method" :> method @@ "params" :> params)
ToolParams(name, arguments) == Dict("name" :> Scal(name) @@ "arguments" :> arguments)
Arguments == Dict("regeling" :> Scal("huurtoeslag"))

\* the bodies a client can post: not JSON; JSON that is not an object; calls of
\* a known tool, of an unknown tool and of a known tool with arguments it
\* cannot read; another method; a call without params; params that are a list;
\* a request without an id
PostBodies ==
  { NotJson,
    List(<<>>),
    Req(Scal("id-1"), Scal("tools/call"), ToolParams("rules_lookup", Arguments)),
    Req(Scal("id-2"), Scal("tools/call"), ToolParams("no_such_tool", Arguments)),
    Req(Scal("id-1"), Scal("tools/call"), ToolParams("rules_lookup", Scal("x"))),
    Req(Scal("id-2"), Scal("ping"), EmptyDict),
    Dict("id" :> Scal("id-1") @@ "method" :> Scal("tools/call")),
    Req(Scal("id-2"), Scal("tools/call"), List(<<True>>)),
    Dict("method" :> Scal("ping")) }

NoPost == [pc |-> "none", body |-> NotJson]
NoReply == [status |-> 0, body |-> NotJson]

\* JSONResponse(resp, status_code=200)
Ok(resp) == [status |-> 200, body |-> resp]
\* an exception leaves message(): the framework answers 500
InternalServerError == [status |-> 500, body |-> NotJson]

ParseError == [id |-> None, error |-> [code |-> "-32700", message |-> "Parse error"]]
MethodNotFound(req_id) ==
  [id |-> req_id, error |-> [code |-> "-32601", message |-> "Method not found"]]
ToolFailed(req_id, e) == [id |-> req_id, error |-> [code |-> "-32000", message |-> e]]
ToolReturned(req_id, result) == [id |-> req_id, result |-> result]

\* _call_tool(tool_name, arguments) after its sleep: the result, or the
\* exception it raises
call_tool(tool_name, arguments) ==
  IF tool_name \in {Scal(t) : t \in KnownTools}
  THEN IF IsDict(arguments)
       THEN [raised |-> FALSE, value |-> ToolResult(tool_name.s, arguments)]
       ELSE [raised |-> TRUE, value |-> [attribute_error |-> "get"]]
  ELSE [raised |-> TRUE, value |-> [unknown_tool |-> tool_name]]

\* msg.get("params") or {}
ParamsOf(msg) ==
  LET params == DictGet(msg, "params") IN IF Falsy(params) THEN EmptyDict ELSE params

\* params.get("arguments") or {}
ArgumentsOf(params) ==
  LET arguments == DictGet(params, "arguments")
  IN IF Falsy(arguments) THEN EmptyDict ELSE arguments

\* A variant of _publish_sse without the except clause: QueueFull from one
\* queue ends the broadcast.
publish_sse_raising(payload) ==
  IF \E s \in clients : Len(cq[s]) >= SseQueueMax
  THEN cq
  ELSE [s \in Streams |-> IF s \in clients THEN Append(cq[s], payload) ELSE cq[s]]

\* _publish_sse(payload): put_nowait on the queue of every registered stream,
\* passing over a queue that is full
publish_sse(payload) ==
  [s \in Streams |->
     IF s \in clients /\ Len(cq[s]) < SseQueueMax THEN Append(cq[s], payload) ELSE cq[s]]

\* GET /sse, sse(): create the queue and register it; the response is handed
\* to the framework
GetSse(s) ==
  /\ gen[s] = "none"
  /\ clients' = clients \cup {s}
  /\ gen' = [gen EXCEPT ![s] = "registered"]
  /\ UNCHANGED <<cq, sent, post, reply>>
  /\ UNCHANGED <<nflood, patchVars, hubVars, rpcVars, a2aVars, flowVars, sseVars>>

\* gen(): yield ": connected"
SseGenStart(s) ==
  /\ gen[s] = "registered"
  /\ gen' = [gen EXCEPT ![s] = "open"]
  /\ UNCHANGED <<clients, cq, sent, post, reply>>
  /\ UNCHANGED <<nflood, patchVars, hubVars, rpcVars, a2aVars, flowVars, sseVars>>

\* gen(): payload = await q.get(); yield the message event
SseGenYield(s) ==
  /\ gen[s] = "open"
  /\ cq[s] # <<>>
  /\ sent' = [sent EXCEPT ![s] = Append(@, Head(cq[s]))]
  /\ cq' = [cq EXCEPT ![s] = Tail(@)]
  /\ UNCHANGED <<clients, gen, post, reply>>
  /\ UNCHANGED <<nflood, patchVars, hubVars, rpcVars, a2aVars, flowVars, sseVars>>

\* gen(): the client goes away and the running generator is closed;
\* finally: _clients.remove(q)
SseGenClose(s) ==
  /\ gen[s] = "open"
  /\ clients' = clients \ {s}
  /\ gen' = [gen EXCEPT ![s] = "closed"]
  /\ UNCHANGED <<cq, sent, post, reply>>
  /\ UNCHANGED <<nflood, patchVars, hubVars, rpcVars, a2aVars, flowVars, sseVars>>

\* The stream of a running gen() ends: the client has closed the connection
\* (its call finished or timed out); gen() is still suspended at its yield or
\* at q.get()
SseStreamEnds(s) ==
  /\ gen[s] = "open"
  /\ gen' = [gen EXCEPT ![s] = "ended"]
  /\ UNCHANGED <<clients, cq, sent, post, reply>>
  /\ UNCHANGED <<nflood, patchVars, hubVars, rpcVars, a2aVars, flowVars, sseVars>>

\* A variant of the finally clause of gen() that leaves _clients alone
SseGenReturn(s) ==
  /\ gen[s] = "ended"
  /\ gen' = [gen EXCEPT ![s] = "closed"]
  /\ UNCHANGED <<clients, cq, sent, post, reply>>
  /\ UNCHANGED <<nflood, patchVars, hubVars, rpcVars, a2aVars, flowVars, sseVars>>

\* gen() of an ended stream is closed (cancelled at its await, or closed at
\* its yield); finally: _clients.remove(q)
SseGenFinally(s) ==
  /\ gen[s] = "ended"
  /\ clients' = clients \ {s}
  /\ gen' = [gen EXCEPT ![s] = "closed"]
  /\ UNCHANGED <<cq, sent, post, reply>>
  /\ UNCHANGED <<nflood, patchVars, hubVars, rpcVars, a2aVars, flowVars, sseVars>>

\* Nothing refers to the queue of a closed stream any more; the next GET /sse
\* makes a new one
SseQueueDropped(s) ==
  /\ gen[s] = "closed"
  /\ s \notin clients
  /\ gen' = [gen EXCEPT ![s] = "none"]
  /\ cq' = [cq EXCEPT ![s] = <<>>]
  /\ sent' = [sent EXCEPT ![s] = <<>>]
  /\ UNCHANGED <<clients, post, reply>>
  /\ UNCHANGED <<nflood, patchVars, hubVars, rpcVars, a2aVars, flowVars, sseVars>>

\* POST /message, message() up to its return or to the sleep in _call_tool
PostMessage(p, body) ==
  /\ post[p].pc = "none"
  /\ IF body = NotJson
     THEN \* request.json() raises
          /\ reply' = [reply EXCEPT ![p] = Ok(ParseError)]
          /\ post' = [post EXCEPT ![p] = [pc |-> "done", body |-> body]]
          /\ UNCHANGED cq
     ELSE IF ~IsDict(body)
     THEN \* msg.get raises AttributeError
          /\ reply' = [reply EXCEPT ![p] = InternalServerError]
          /\ post' = [post EXCEPT ![p] = [pc |-> "done", body |-> body]]
          /\ UNCHANGED cq
     ELSE IF DictGet(body, "method") # Scal("tools/call")
     THEN LET resp == MethodNotFound(DictGet(body, "id"))
          IN /\ cq' = publish_sse(resp)
             /\ reply' = [reply EXCEPT ![p] = Ok(resp)]
             /\ post' = [post EXCEPT ![p] = [pc |-> "done", body |-> body]]
     ELSE IF ~IsDict(ParamsOf(body))
     THEN \* params.get raises AttributeError
          /\ reply' = [reply EXCEPT ![p] = InternalServerError]
          /\ post' = [post EXCEPT ![p] = [pc |-> "done", body |-> body]]
          /\ UNCHANGED cq
     ELSE /\ post' = [post EXCEPT ![p] = [pc |-> "tool", body |-> body]]
          /\ UNCHANGED <<reply, cq>>
  /\ UNCHANGED <<clients, gen, sent>>
  /\ UNCHANGED <<nflood, patchVars, hubVars, rpcVars, a2aVars, flowVars, sseVars>>

\* message(): _call_tool returns or raises after its sleep; the response is
\* broadcast and returned
ToolDone(p) ==
  /\ post[p].pc = "tool"
  /\ LET msg == post[p].body
         req_id == DictGet(msg, "id")
         params == ParamsOf(msg)
         r == call_tool(DictGet(params, "name"), ArgumentsOf(params))
         resp == IF r.raised THEN ToolFailed(req_id, r.value)
                 ELSE ToolReturned(req_id, r.value)
     IN /\ cq' = publish_sse(resp)
        /\ reply' = [reply EXCEPT ![p] = Ok(resp)]
  /\ post' = [post EXCEPT ![p].pc = "done"]
  /\ UNCHANGED <<clients, gen, sent>>
  /\ UNCHANGED <<nflood, patchVars, hubVars, rpcVars, a2aVars, flowVars, sseVars>>

(***************************************************************************)
(* The tool server under a flood: one client sends request after request   *)
(* (each the next once the last was answered) with a method the server     *)
(* does not know, so that every request is answered and broadcast without  *)
(* the tool's sleep; the request ids count up.  Streams connect before the *)
(* flood or right at its start and stay connected, and a reader takes a    *)
(* few payloads and then stalls, so that its queue fills.                  *)
(***************************************************************************)
Flooder == "post-1"
Num(k) == [num |-> k]
Ping(k) == Req(Num(k), Scal("ping"), EmptyDict)

\* POST /message with the flooder's current request
FloodPost == PostMessage(Flooder, Ping(nflood))

\* the flooder has its answer and turns to its next request
FloodNext ==
  /\ post[Flooder].pc = "done"
  /\ nflood < MaxFlood
  /\ nflood' = nflood + 1
  /\ post' = [post EXCEPT ![Flooder] = NoPost]
  /\ reply' = [reply EXCEPT ![Flooder] = NoReply]
  /\ UNCHANGED <<clients, cq, gen, sent>>
  /\ UNCHANGED <<patchVars, hubVars, rpcVars, a2aVars, flowVars, sseVars>>

FloodConnect(s) == nflood <= MaxLate /\ GetSse(s)
FloodYield(s) == Len(sent[s]) < MaxYields /\ SseGenYield(s)

ServerInit ==
  /\ clients = {}
  /\ nflood = 0
  /\ cq = [s \in Streams |-> <<>>]
  /\ gen = [s \in Streams |-> "none"]
  /\ sent = [s \in Streams |-> <<>>]
  /\ post = [p \in Posts |-> NoPost]
  /\ reply = [p \in Posts |-> NoReply]

(***************************************************************************)
(* The flows (main.py: run_toeslagen_flow, run_bezwaar_flow,               *)
(* run_genui_search_flow), each a task started by client_event on a        *)
(* registered session.  A flow is the sequence of its statements that      *)
(* write the surface or call out; the sleeps between them are left out.    *)
(* Of the surface document the model keeps status.loading, which           *)
(* _send_open_surface sets to false and _set_status(loading=...) sets as   *)
(* told; _set_results and a _set_status without loading leave it alone.    *)
(***************************************************************************)
Flows == {"toeslagen", "bezwaar", "genui_search"}

\* the statements: "open" is _send_open_surface, "loading" is
\* _set_status(loading=True), "results" is _set_results or _set_form_state,
\* "status" is _set_status without loading, "mcp" and "a2a" are
\* _mcp_call_with_trace and _a2a_call_with_trace, "a2a_try" is the latter
\* inside try ... except Exception, "finish" is _set_status(loading=False)
run_toeslagen_flow ==
  <<"open", "loading", "mcp", "loading", "mcp", "results", "loading", "mcp",
    "results", "loading", "a2a", "results", "finish">>
run_bezwaar_flow ==
  <<"open", "loading", "mcp", "loading", "mcp", "loading", "mcp", "loading", "a2a",
    "results", "finish">>
run_genui_search_flow ==
  <<"open", "loading", "results", "loading", "mcp", "results", "results", "results",
    "loading", "a2a_try", "status", "results", "finish">>

Program(f) ==
  IF f = "toeslagen" THEN run_toeslagen_flow
  ELSE IF f = "bezwaar" THEN run_bezwaar_flow
  ELSE run_genui_search_flow

IsCall(stmt) == stmt \in {"mcp", "a2a", "a2a_try"}

\* status.loading after a statement that writes the surface
LoadingAfter(stmt, loading) ==
  IF stmt = "open" THEN "false"
  ELSE IF stmt = "loading" THEN "true"
  ELSE IF stmt = "finish" THEN "false"
  ELSE loading

\* client_event: asyncio.create_task(run_..._flow(sid, data)); a flow that has
\* ended can be started again
FlowStart(f) ==
  /\ fstate[f] \in {"idle", "done", "raised"}
  /\ fstate' = [fstate EXCEPT ![f] = "run"]
  /\ fpc' = [fpc EXCEPT ![f] = 1]
  /\ UNCHANGED floading
  /\ UNCHANGED <<patchVars, hubVars, rpcVars, a2aVars, srvVars, sseVars>>

\* the flow runs its next statement: a write to the surface, or the start of
\* a call, which it then awaits; after its last statement the task is done
FlowStep(f) ==
  /\ fstate[f] = "run"
  /\ LET stmt == Program(f)[fpc[f]]
     IN IF IsCall(stmt)
        THEN /\ fstate' = [fstate EXCEPT ![f] = "call"]
             /\ UNCHANGED <<fpc, floading>>
        ELSE /\ floading' = [floading EXCEPT ![f] = LoadingAfter(stmt, @)]
             /\ IF fpc[f] = Len(Program(f))
                THEN fstate' = [fstate EXCEPT ![f] = "done"] /\ UNCHANGED fpc
                ELSE fpc' = [fpc EXCEPT ![f] = @ + 1] /\ UNCHANGED fstate
  /\ UNCHANGED <<patchVars, hubVars, rpcVars, a2aVars, srvVars, sseVars>>

\* the awaited call returns; _mcp_call_with_trace / _a2a_call_with_trace then
\* runs _set_status(loading=True, ...) and the flow goes on
CallReturns(f) ==
  /\ fstate[f] = "call"
  /\ floading' = [floading EXCEPT ![f] = "true"]
  /\ fpc' = [fpc EXCEPT ![f] = @ + 1]
  /\ fstate' = [fstate EXCEPT ![f] = "run"]
  /\ UNCHANGED <<patchVars, hubVars, rpcVars, a2aVars, srvVars, sseVars>>

\* the awaited call raises (call_tool: timeout, remote error, stream ended,
\* HTTP error; message_send: HTTP error, A2A error).  Inside the try block the
\* except branch runs _set_status, _set_results and _set_status(loading=False);
\* anywhere else the exception ends the task
CallRaises(f) ==
  /\ fstate[f] = "call"
  /\ IF Program(f)[fpc[f]] = "a2a_try"
     THEN /\ floading' = [floading EXCEPT ![f] = "false"]
          /\ fstate' = [fstate EXCEPT ![f] = "done"]
     ELSE /\ fstate' = [fstate EXCEPT ![f] = "raised"]
          /\ UNCHANGED floading
  /\ UNCHANGED fpc
  /\ UNCHANGED <<patchVars, hubVars, rpcVars, a2aVars, srvVars, sseVars>>

FlowInit ==
  /\ fstate = [f \in Flows |-> "idle"]
  /\ fpc = [f \in Flows |-> 1]
  /\ floading = [f \in Flows |-> "unset"]

(***************************************************************************)
(* _parse_sse_events (mcp_client.py).  A line is a string without its line *)
(* ending; it is modelled as its sequence of tokens, each one of the words *)
(* "event" and "data", a colon, a space, or another character.             *)
(* "data: x" is <<"data", ":", " ", "x">>; the empty line is <<>>.         *)
(***************************************************************************)
Colon == ":"
Space == " "
Newline == "LF"
Blank == <<>>
DefaultEvent == <<"message">>

\* The lines a stream hands over: event and data lines with and without
\* padding and with an empty value, a comment, a line of one space, and a
\* field name without a colon
LineSet ==
  { Blank,
    <<"event", Colon, Space, "x">>,
    <<"event", Colon, "y", Space>>,
    <<"event", Colon>>,
    <<"data", Colon, Space, "x">>,
    <<"data", Colon, "y", Space>>,
    <<"data", Colon>>,
    <<Colon, Space, "x">>,
    <<Space>>,
    <<"data">> }

\* line.startswith(field + ":")
StartsWith(line, field) ==
  Len(line) >= 2 /\ line[1] = field /\ line[2] = Colon

\* line.split(":", 1)[1] of a line that starts with a field name and a colon
AfterColon(line) == SubSeq(line, 3, Len(line))

\* str.lstrip()
RECURSIVE LStrip(_)
LStrip(str) ==
  IF str # <<>> /\ str[1] = Space THEN LStrip(Tail(str)) ELSE str

\* str.rstrip()
RECURSIVE RStrip(_)
RStrip(str) ==
  IF str # <<>> /\ str[Len(str)] = Space
  THEN RStrip(SubSeq(str, 1, Len(str) - 1)) ELSE str

\* str.strip()
Strip(str) == RStrip(LStrip(str))

\* "\n".join(strs)
RECURSIVE Join(_)
Join(strs) ==
  IF strs = <<>> THEN <<>>
  ELSE IF Len(strs) = 1 THEN strs[1]
  ELSE strs[1] \o <<Newline>> \o Join(Tail(strs))

\* the tuple (event, data) as yielded
Pair(name, data) == [event |-> name, data |-> data]

\* A variant of the loop body that keeps the event name across a blank line.
ParseLineKeepsEvent(line) ==
  /\ ~eof
  /\ Len(lines) < MaxLines
  /\ lines' = Append(lines, line)
  /\ IF line = Blank
     THEN /\ yielded' = IF data_lines # <<>>
                        THEN Append(yielded, Pair(event, Join(data_lines)))
                        ELSE yielded
          /\ data_lines' = <<>>
          /\ UNCHANGED event
     ELSE IF StartsWith(line, "event")
     THEN /\ event' = Strip(AfterColon(line))
          /\ UNCHANGED <<data_lines, yielded>>
     ELSE IF StartsWith(line, "data")
     THEN /\ data_lines' = Append(data_lines, LStrip(AfterColon(line)))
          /\ UNCHANGED <<event, yielded>>
     ELSE UNCHANGED <<event, data_lines, yielded>>
  /\ UNCHANGED eof
  /\ UNCHANGED <<patchVars, hubVars, rpcVars, a2aVars, srvVars, flowVars>>

\* async for line in lines: one pass of the loop body
ParseLine(line) ==
  /\ ~eof
  /\ Len(lines) < MaxLines
  /\ lines' = Append(lines, line)
  /\ IF line = Blank
     THEN /\ yielded' = IF data_lines # <<>>
                        THEN Append(yielded, Pair(event, Join(data_lines)))
                        ELSE yielded
          /\ event' = DefaultEvent
          /\ data_lines' = <<>>
     ELSE IF StartsWith(line, "event")
     THEN /\ event' = Strip(AfterColon(line))
          /\ UNCHANGED <<data_lines, yielded>>
     ELSE IF StartsWith(line, "data")
     THEN /\ data_lines' = Append(data_lines, LStrip(AfterColon(line)))
          /\ UNCHANGED <<event, yielded>>
     ELSE UNCHANGED <<event, data_lines, yielded>>
  /\ UNCHANGED eof
  /\ UNCHANGED <<patchVars, hubVars, rpcVars, a2aVars, srvVars, flowVars>>

\* the iterator is exhausted: if data_lines: yield event, "\n".join(data_lines)
ParseEnd ==
  /\ ~eof
  /\ eof' = TRUE
  /\ yielded' = IF data_lines # <<>>
                THEN Append(yielded, Pair(event, Join(data_lines)))
                ELSE yielded
  /\ UNCHANGED <<lines, event, data_lines>>
  /\ UNCHANGED <<patchVars, hubVars, rpcVars, a2aVars, srvVars, flowVars>>

ParseInit ==
  /\ lines = <<>>
  /\ eof = FALSE
  /\ event = DefaultEvent
  /\ data_lines = <<>>
  /\ yielded = <<>>

(***************************************************************************)
(* Specifications.                                                         *)
(***************************************************************************)
Init ==
  PatchInit /\ HubInit /\ RpcInit /\ A2AInit /\ ServerInit /\ FlowInit /\ ParseInit

NextPatch == PatchCall \/ PatchStep \/ PatchReturn

NextHub ==
  \/ Events
  \/ \E sid \in SessionIds :
       \/ GenStart(sid)
       \/ GenOpenHome(sid)
       \/ GenCheck(sid)
       \/ GenDequeue(sid)
       \/ GenTimeout(sid)
       \/ Disconnect(sid)
       \/ \E surface_id \in OpenTargets : SendOpenSurface(sid, surface_id)
       \/ \E surface_id \in Surfaces, patches \in HubBatches :
            PushUpdateAndApply(sid, surface_id, patches)

NextHubApi ==
  \/ Events
  \/ \E sid \in SessionIds :
       \/ GenStart(sid)
       \/ GenOpenHome(sid)
       \/ GenCheck(sid)
       \/ GenDequeue(sid)
       \/ GenTimeout(sid)
       \/ Disconnect(sid)
       \/ ApiDrop(sid)
       \/ \E msg \in PushMsgs : ApiPush(sid, msg)
       \/ \E surface_id \in Surfaces, patches \in ApiBatches :
            ApiPushUpdateAndApply(sid, surface_id, patches)

NextRpc ==
  \E c \in Calls :
    \/ CallTool(c)
    \/ Sse(c)
    \/ StreamOpened(c)
    \/ OpenFail(c)
    \/ PostSend(c)
    \/ Message(c)
    \/ PostDone(c)
    \/ PostFail(c)
    \/ ReadEvent(c)
    \/ StreamEnd(c)
    \/ ReadEnd(c)
    \/ Timeout(c)
    \/ SseCleanup(c)

SpecPatch == Init /\ [][NextPatch]_vars

Spec == Init /\ [][NextHub]_vars

SpecHubApi == Init /\ [][NextHubApi]_vars

\* The event loop runs every step of a publisher's generator that is ready;
\* nothing obliges a subscriber to disconnect or a caller to call.
PublisherFairness ==
  \A sid \in SessionIds :
    /\ WF_vars(GenStart(sid))
    /\ WF_vars(GenOpenHome(sid))
    /\ WF_vars(GenCheck(sid))
    /\ WF_vars(GenDequeue(sid))
    /\ WF_vars(GenTimeout(sid))

SpecHubApiFair == Init /\ [][NextHubApi]_vars /\ PublisherFairness

\* The publishers with the flows reduced to the status update of the home
\* surface; the queue then carries both kinds of message, the surface open of
\* home put by the publisher and the updates.
NextDelivery ==
  \/ Events
  \/ \E sid \in SessionIds :
       \/ GenStart(sid)
       \/ GenOpenHome(sid)
       \/ GenCheck(sid)
       \/ GenDequeue(sid)
       \/ GenTimeout(sid)
       \/ Disconnect(sid)
       \/ PushUpdateAndApply(sid, "home", SetStatusBatch)

SpecFair == Init /\ [][NextDelivery]_vars /\ PublisherFairness

NextA2A ==
  \/ MessageSend
  \/ A2ARespond
  \/ A2APostFail
  \/ A2ARaiseForStatus
  \/ A2ADecode
  \/ A2ACheckError
  \/ A2AExtract

SpecA2A == Init /\ [][NextA2A]_vars

NextServer ==
  \/ \E s \in Streams :
       \/ GetSse(s)
       \/ SseGenStart(s)
       \/ SseGenYield(s)
       \/ SseGenClose(s)
  \/ \E p \in Posts :
       \/ \E body \in PostBodies : PostMessage(p, body)
       \/ ToolDone(p)

SpecServer == Init /\ [][NextServer]_vars

NextFlood ==
  \/ \E s \in Streams :
       \/ FloodConnect(s)
       \/ SseGenStart(s)
       \/ FloodYield(s)
  \/ FloodPost
  \/ FloodNext

SpecFlood == Init /\ [][NextFlood]_vars

NextStreams ==
  \/ \E s \in Streams :
       \/ GetSse(s)
       \/ SseGenStart(s)
       \/ SseGenYield(s)
       \/ SseStreamEnds(s)
       \/ SseGenFinally(s)
       \/ SseQueueDropped(s)
  \/ \E p \in Posts :
       \/ \E body \in PostBodies : PostMessage(p, body)
       \/ ToolDone(p)

\* The response of sse() is iterated once it has been returned, and gen() of
\* a stream that is over is closed; nothing obliges a client to connect, to
\* read or to leave.
StreamFairness ==
  \A s \in Streams :
    /\ WF_vars(SseGenStart(s))
    /\ WF_vars(SseGenFinally(s))

SpecStreamsFair == Init /\ [][NextStreams]_vars /\ StreamFairness


NextParse ==
  \/ \E line \in LineSet : ParseLine(line)
  \/ ParseEnd

SpecParse == Init /\ [][NextParse]_vars

SpecRpc == Init /\ [][NextRpc]_vars

\* The event loop runs every client-side step that is ready, and the timer of
\* wait_for fires once armed; nothing obliges the server or the network to act.
ClientFairness ==
  \A c \in Calls :
    /\ WF_vars(StreamOpened(c))
    /\ WF_vars(PostSend(c))
    /\ WF_vars(ReadEvent(c))
    /\ WF_vars(ReadEnd(c))
    /\ WF_vars(Timeout(c))

SpecRpcFair == Init /\ [][NextRpc]_vars /\ ClientFairness

NextFlow ==
  \E f \in Flows :
    \/ FlowStart(f)
    \/ FlowStep(f)
    \/ CallReturns(f)
    \/ CallRaises(f)

\* The event loop runs a flow's next statement, and every call ends: call_tool
\* and message_send are bounded by their timeouts.  Nothing obliges a
\* subscriber to start a flow.
FlowFairness ==
  \A f \in Flows :
    /\ WF_vars(FlowStep(f))
    /\ WF_vars(CallReturns(f) \/ CallRaises(f))

SpecFlowFair == Init /\ [][NextFlow]_vars /\ FlowFairness

(***************************************************************************)
(* Properties of the patch engine (SpecPatch).                             *)
(***************************************************************************)
\* apply_patches as C9 describes it: an operation that raises is skipped and the
\* loop goes on with the next one
RECURSIVE ApplySkippingErrors(_, _)
ApplySkippingErrors(model, patches) ==
  IF patches = <<>> THEN model
  ELSE LET r == ApplyOp(model, Head(patches))
       IN ApplySkippingErrors(IF r.raised THEN model ELSE r.doc, Tail(patches))

PatchEnded == pstate \in {"returned", "raised"}

\* C9: an error raised by one patch operation aborts only that operation; the
\* operations after it in the batch are still applied, so a finished call leaves
\* the document with every operation that does not raise applied in order.
C9_ErrorNotFatalToBatch ==
  PatchEnded => pdoc = ApplySkippingErrors(pinit, pbatch)

\* C10: when _ensure_path raises for an operation, that operation has not changed
\* the document: the document is exactly what the earlier operations of the batch
\* made of it (none of which raised).
C10_RaiseLeavesDocument ==
  pstate = "raised" =>
    LET earlier == ApplyPatches(pinit, SubSeq(pbatch, 1, pidx - 1))
    IN ~earlier.raised /\ pdoc = earlier.doc

\* C10 witness: a batch raised at a later operation after earlier operations had
\* changed the document, at a pointer with an intermediate segment.
C10_Witness ==
  /\ pstate = "raised"
  /\ pidx > 1
  /\ pdoc # pinit
  /\ Len(SplitParts(pbatch[pidx].path.str)) > 1

\* The document the loop of the call found before its operation i, and the
\* document operation i left (none of the operations before i raised).
DocBefore(i) == ApplyPatches(pinit, SubSeq(pbatch, 1, i - 1)).doc
DocAfter(i) == ApplyPatches(pinit, SubSeq(pbatch, 1, i)).doc

\* the operations of the call that have run to their end without raising
Completed == 1 .. (pidx - 1)

\* an add/replace operation with a string pointer that starts with "/"
IsSetOp(p) ==
  p.op \in {"add", "replace"} /\ IsStr(p.path) /\ StartsWithSlash(p.path.str)

\* the keys the pointer descends through before its last segment
Descent(p) == Front(SplitParts(p.path.str))

\* whether descending from doc along segs meets an existing value that is not a
\* mapping
RECURSIVE MeetsNonMapping(_, _)
MeetsNonMapping(doc, segs) ==
  IF segs = <<>> THEN FALSE
  ELSE IF Head(segs) \notin DOMAIN doc.d THEN FALSE
  ELSE IF ~IsDict(doc.d[Head(segs)]) THEN TRUE
  ELSE MeetsNonMapping(doc.d[Head(segs)], Tail(segs))

\* C11: an add/replace operation whose pointer has to descend through an existing
\* value that is not a mapping never completes: it raises, and the document is
\* what it was before the operation.
C11_TraversalErrorOnNonMapping ==
  /\ \A i \in Completed :
       ~(IsSetOp(pbatch[i]) /\ MeetsNonMapping(DocBefore(i), Descent(pbatch[i])))
  /\ (pstate = "raised" /\ IsSetOp(pbatch[pidx])) => pdoc = DocBefore(pidx)

\* The keys of the documents and pointers at hand, and the key sequences
\* that reach into those documents.
Keys == {"status", "loading", "results"}
KeyPaths == SeqsUpTo(Keys, 3)

\* the value a document holds at a key sequence, Missing where it holds none
Missing == [missing |-> TRUE]
RECURSIVE Get(_, _)
Get(doc, keys) ==
  IF keys = <<>> THEN doc
  ELSE IF ~IsDict(doc) THEN Missing
  ELSE IF Head(keys) \notin DOMAIN doc.d THEN Missing
  ELSE Get(doc.d[Head(keys)], Tail(keys))

IsPrefix(a, b) == Len(a) <= Len(b) /\ SubSeq(b, 1, Len(a)) = a

\* an add/replace operation with a non-empty pointer whose intermediate keys are
\* missing from doc or hold mappings
IsPlainSet(doc, p) ==
  /\ IsSetOp(p)
  /\ SplitParts(p.path.str) # <<>>
  /\ ~MeetsNonMapping(doc, Descent(p))

\* C12: a completed add/replace operation with pointer /s1/.../sn whose
\* intermediate keys were missing or mappings leaves a document that holds the
\* patch value at s1...sn, holds a mapping at every proper prefix of the pointer,
\* and holds at every key sequence off the pointer what it held before (what was
\* absent there is still absent).
C12_SetAtPointer ==
  \A i \in Completed :
    LET p == pbatch[i]
        before == DocBefore(i)
        after == DocAfter(i)
        parts == SplitParts(p.path.str)
    IN IsPlainSet(before, p) =>
         /\ Get(after, parts) = p.value
         /\ \A q \in KeyPaths :
              IF IsPrefix(parts, q) THEN TRUE
              ELSE IF IsPrefix(q, parts)
                   THEN /\ IsDict(Get(after, q))
                        /\ Get(before, q) = Missing \/ IsDict(Get(before, q))
                   ELSE Get(after, q) = Get(before, q)

\* C12 witness: a returned call on the empty document whose first operation
\* created the two missing mappings on the way to /status/loading/results and
\* whose second operation overwrote the mapping at /status/loading by a scalar.
C12_Witness ==
  /\ pstate = "returned"
  /\ pinit = EmptyDict
  /\ Len(pbatch) = 2
  /\ Get(DocAfter(1), <<"status", "loading", "results">>) = False
  /\ pdoc = LoadingDoc(True)

\* an add/replace operation whose pointer is "/"
IsWholeDocOp(p) ==
  p.op \in {"add", "replace"} /\ IsStr(p.path) /\ p.path.str = <<Slash>>

\* C13: a completed add/replace operation with pointer "/" leaves the document
\* with exactly the contents of the patch value when the value is a mapping (no
\* earlier key survives), and leaves the document as it was when the value is
\* not a mapping; it never raises.
C13_WholeDocumentReplace ==
  /\ \A i \in Completed :
       IsWholeDocOp(pbatch[i]) =>
         DocAfter(i) = IF IsDict(pbatch[i].value) THEN pbatch[i].value
                       ELSE DocBefore(i)
  /\ pstate = "raised" => ~IsWholeDocOp(pbatch[pidx])

\* C13 witness: a returned call in which a whole-document replace with a mapping
\* removed the keys the document had, and a later one with a scalar changed
\* nothing.
C13_Witness ==
  /\ pstate = "returned"
  /\ Len(pbatch) = 2
  /\ IsWholeDocOp(pbatch[1]) /\ IsDict(pbatch[1].value)
  /\ IsWholeDocOp(pbatch[2]) /\ ~IsDict(pbatch[2].value)
  /\ "status" \in DOMAIN pinit.d
  /\ pdoc = pbatch[1].value
  /\ "status" \notin DOMAIN pdoc.d

\* an operation apply_patches does not handle: its op is neither add nor
\* replace, or its path is not a string
IsSkippedOp(p) == p.op \notin {"add", "replace"} \/ ~IsStr(p.path)

\* C14: an operation whose op is neither add nor replace, or whose path is not a
\* string, is skipped: it never raises, it leaves the document as it found it,
\* and the call ends as it would have ended on the batch without such
\* operations, with the same document.
C14_UnknownOpSkipped ==
  /\ pstate = "raised" => ~IsSkippedOp(pbatch[pidx])
  /\ \A i \in Completed : IsSkippedOp(pbatch[i]) => DocAfter(i) = DocBefore(i)
  /\ PatchEnded =>
       LET handled == SelectSeq(pbatch, LAMBDA p : ~IsSkippedOp(p))
           r == ApplyPatches(pinit, handled)
       IN pdoc = r.doc /\ (pstate = "raised") = r.raised

\* C14 witness: a returned call whose first operation was skipped (a remove, or
\* a replace without a string path) and whose second operation then changed the
\* document.
C14_Witness ==
  /\ pstate = "returned"
  /\ Len(pbatch) = 2
  /\ IsSkippedOp(pbatch[1])
  /\ ~IsSkippedOp(pbatch[2])
  /\ DocAfter(1) = pinit
  /\ pdoc # pinit

\* the loop is about to apply, for the second time in a row, a replace
\* operation it has just applied
AtRepeatedReplace ==
  /\ pstate = "running"
  /\ 1 < pidx /\ pidx <= Len(pbatch)
  /\ pbatch[pidx] = pbatch[pidx - 1]
  /\ pbatch[pidx].op = "replace"

\* C15: replace is idempotent: applying a replace operation a second time, right
\* after it has been applied, does not raise and leaves the document exactly as
\* the first application left it.
C15_ReplaceIdempotent ==
  [][AtRepeatedReplace => (pstate' = "running" /\ pdoc' = pdoc)]_vars

\* C15 witness: a returned call that applied the same replace operation twice to
\* a document the operation changes.
C15_Witness ==
  /\ pstate = "returned"
  /\ Len(pbatch) = 2
  /\ pbatch[1] = pbatch[2]
  /\ pbatch[1].op = "replace"
  /\ IsSetOp(pbatch[1])
  /\ pdoc # pinit

(***************************************************************************)
(* Properties of the session hub and the publisher (Spec).                 *)
(***************************************************************************)
\* C1: once the publisher has observed the disconnect (gen has left its loop),
\* the session is no longer in the registry: hub.get returns not-found.
C1_DisconnectDisposes ==
  \A sid \in SessionIds : pubPc[sid] = "done" => ~HubGet(sid)

BatchOf(x) == [surfaceId |-> x.surfaceId, patches |-> x.patches]
Batches(q) == [i \in DOMAIN q |-> BatchOf(q[i])]
Updates(q) ==
  LET ups == SelectSeq(q, LAMBDA m : m.msg.kind = "dataModelUpdate")
  IN [i \in DOMAIN ups |-> BatchOf(ups[i].msg)]

\* C2: in every state another task can observe, the batches that have patched a
\* surface document of a session are exactly, and in the same order, the batches
\* whose dataModelUpdate has been put on that session's queue.
C2_ApplyAndNotifyAtomic ==
  \A sid \in SessionIds : Batches(patched[sid]) = Updates(enqueued[sid])

\* C3: no batch that raised has changed a surface document (a change for which
\* no dataModelUpdate was enqueued).
C3_NoDesyncOnError ==
  \A sid \in SessionIds : \A i \in DOMAIN patched[sid] :
    ~(patched[sid][i].raised /\ patched[sid][i].changed)

FrameKey(x) == [n |-> x.n, kind |-> x.kind, surfaceId |-> x.surfaceId]
MsgKey(m) == [n |-> m.n, kind |-> m.msg.kind, surfaceId |-> m.msg.surfaceId]
FromQueue(frames) == SelectSeq(frames, LAMBDA f : f.kind # "session/created")
FrameKeys(frames) == [i \in DOMAIN frames |-> FrameKey(frames[i])]
MsgKeys(q) == [i \in DOMAIN q |-> MsgKey(q[i])]

\* C4: the frames a publisher has emitted from the queue, followed by what is
\* still queued, are the messages enqueued on the session, in enqueue order, each
\* exactly once; a dataModelUpdate frame carries the patches that were enqueued.
C4_FifoEmission ==
  \A sid \in SessionIds :
    /\ FrameKeys(FromQueue(emitted[sid])) \o MsgKeys(queue[sid]) = MsgKeys(enqueued[sid])
    /\ \A i \in DOMAIN FromQueue(emitted[sid]) :
         LET f == FromQueue(emitted[sid])[i]
         IN f.kind = "dataModelUpdate" => f.patches = enqueued[sid][i].msg.patches

\* C4 witness: a session whose publisher has emitted three queued messages, the
\* last two put by flow operations after the home surface was opened.
C4_Witness ==
  \E sid \in SessionIds :
    /\ Len(FromQueue(emitted[sid])) = 3
    /\ emitted[sid][3].kind # emitted[sid][4].kind

Last(q) == q[Len(q)]

\* the surface document of a session, empty while the surface has none
DocNow(sid, surface_id) ==
  IF surface_id \in DOMAIN models[sid]
  THEN heap[sid][models[sid][surface_id]] ELSE EmptyDict

\* the same document after the step
DocNext(sid, surface_id) ==
  IF surface_id \in DOMAIN models'[sid]
  THEN heap'[sid][models'[sid][surface_id]] ELSE EmptyDict

\* the step is a push_update_and_apply on session sid that ran to its return
CompletedPush(sid) ==
  /\ Len(patched'[sid]) = Len(patched[sid]) + 1
  /\ ~Last(patched'[sid]).raised

\* C16: a push_update_and_apply(sid, surface, patches) that returns, on a
\* registered session, leaves the surface document equal to the document before
\* the call with the patches applied in order, and puts exactly one message at
\* the end of that session's queue: the dataModelUpdate with that surface id and
\* that patch list; no other session's queue or documents change.
C16_ApplyThenOneUpdate ==
  [][\A sid \in SessionIds :
       CompletedPush(sid) =>
         LET c == Last(patched'[sid])
         IN /\ HubGet(sid)
            /\ DocNext(sid, c.surfaceId) =
                 ApplyPatches(DocNow(sid, c.surfaceId), c.patches).doc
            /\ Len(enqueued'[sid]) = Len(enqueued[sid]) + 1
            /\ Last(enqueued'[sid]).msg =
                 [kind |-> "dataModelUpdate", surfaceId |-> c.surfaceId,
                  patches |-> c.patches]
            /\ queue'[sid] = Append(queue[sid], Last(enqueued'[sid]))
            /\ \A o \in SessionIds \ {sid} :
                 queue'[o] = queue[o] /\ heap'[o] = heap[o] /\ models'[o] = models[o]
    ]_vars

\* C16 witness: on a session whose home surface was opened with status.loading
\* false, the one push_update_and_apply made so far replaced /status/loading by
\* true: the home document reads loading = true and exactly one dataModelUpdate
\* has been enqueued on the session.
C16_Witness ==
  \E sid \in SessionIds :
    /\ Len(enqueued[sid]) > 0
    /\ enqueued[sid][1].msg.kind = "surface/open"
    /\ enqueued[sid][1].msg.surfaceId = "home"
    /\ Batches(patched[sid]) = <<[surfaceId |-> "home", patches |-> SetStatusBatch]>>
    /\ Get(DocNow(sid, "home"), <<"status", "loading">>) = True
    /\ Updates(enqueued[sid]) = <<[surfaceId |-> "home", patches |-> SetStatusBatch]>>

\* the message gen() itself puts on the queue: the surface/open of home
IsHomeOpen(x) == x.kind = "surface/open" /\ x.surfaceId = "home"

C27_OneConsumerPerQueue ==
  [][\A sid \in SessionIds :
       /\ (pubPc'[sid] = "start" /\ pubPc[sid] # "start") =>
            /\ pubPc[sid] = "none"
            /\ sid \notin sessions /\ sid \in sessions'
            /\ queue[sid] = <<>> /\ emitted[sid] = <<>>
       /\ Len(queue'[sid]) < Len(queue[sid]) =>
            /\ pubPc[sid] = "wait"
            /\ queue'[sid] = Tail(queue[sid])
            /\ emitted'[sid] = Append(emitted[sid], Frame(sid, Head(queue[sid])))
            /\ \A o \in SessionIds \ {sid} : emitted'[o] = emitted[o]
       /\ pubPc[sid] = "done" =>
            pubPc'[sid] = "done" /\ emitted'[sid] = emitted[sid]
    ]_vars

\* C27 witness: a subscriber left while a message was still queued on its
\* session; the session of the next connection is being drained by its own
\* publisher, and the first session's queue keeps its message.
C27_Witness ==
  \E sid \in SessionIds, other \in SessionIds :
    /\ pubPc[sid] = "done"
    /\ queue[sid] # <<>>
    /\ pubPc[other] \in {"check", "wait"}
    /\ Len(emitted[other]) > 1

\* C28: a surface document is created lazily and then kept.  In a
\* push_update_and_apply step on a registered session, get_model hands out an
\* empty mapping stored as a new document when the surface has none, and the
\* stored document, with everything applied to it so far, when it has one; no
\* other document changes; and the document a surface refers to is exchanged
\* only by a surface open.
C28_LazySurfaceDocument ==
  [][\A sid \in SessionIds, surface_id \in Surfaces :
       LET known == surface_id \in DOMAIN models[sid]
       IN /\ \A patches \in HubBatches :
               (HubGet(sid) /\ PushUpdateAndApply(sid, surface_id, patches)) =>
                 /\ surface_id \in DOMAIN models'[sid]
                 /\ LET ref == models'[sid][surface_id]
                        before == IF known THEN heap[sid][models[sid][surface_id]]
                                  ELSE EmptyDict
                    IN /\ known => ref = models[sid][surface_id]
                       /\ ~known => ref = Len(heap'[sid]) /\ ref = Len(heap[sid]) + 1
                       /\ heap'[sid][ref] = ApplyPatches(before, patches).doc
                       /\ \A i \in 1..Len(heap[sid]) :
                            i # ref => heap'[sid][i] = heap[sid][i]
          /\ known => surface_id \in DOMAIN models'[sid]
          /\ (known /\ models'[sid][surface_id] # models[sid][surface_id]) =>
               \/ GenOpenHome(sid) /\ surface_id = "home"
               \/ SendOpenSurface(sid, surface_id)
    ]_vars

\* C28 witness: a surface that was never opened got its document from the
\* first of two updates, and the second update was applied to that document.
C28_Witness ==
  \E sid \in SessionIds, surface_id \in Surfaces :
    /\ Len(patched[sid]) = 2
    /\ \A i \in 1..2 : patched[sid][i].surfaceId = surface_id
    /\ \A i \in 1..Len(enqueued[sid]) : enqueued[sid][i].msg.kind # "surface/open"
    /\ Len(heap[sid]) = 1
    /\ surface_id \in DOMAIN models[sid]
    /\ heap[sid][models[sid][surface_id]] =
         ApplyPatches(ApplyPatches(EmptyDict, patched[sid][1].patches).doc,
                      patched[sid][2].patches).doc
    /\ patched[sid][1].patches # patched[sid][2].patches

\* the most messages a session's queue can be given: the home surface and one
\* message per flow operation
MaxEnqueued == MaxOps + 1

\* C30: with the publisher's steps scheduled (SpecFair), every message put on a
\* session's queue is eventually emitted on that session's stream, at its place
\* in enqueue order, unless the subscriber disconnects; this includes a message
\* put on the queue after a poll has timed out.
C30_EventualDelivery ==
  \A sid \in SessionIds : \A n \in 1..MaxEnqueued :
    (Len(enqueued[sid]) >= n) ~>
      \/ ~connected[sid]
      \/ /\ Len(FromQueue(emitted[sid])) >= n
         /\ FrameKey(FromQueue(emitted[sid])[n]) = MsgKey(enqueued[sid][n])

\* C30 witness: a subscriber that is still connected has been sent every
\* message put on its session's queue, the home surface and one update per
\* flow operation, and the queue is empty again.
C30_Witness ==
  \E sid \in SessionIds :
    /\ connected[sid]
    /\ queue[sid] = <<>>
    /\ Len(enqueued[sid]) = MaxEnqueued
    /\ FrameKeys(FromQueue(emitted[sid])) = MsgKeys(enqueued[sid])

\* C31: with the publisher's steps scheduled (SpecFair), a publisher whose
\* subscriber has disconnected eventually ends, whether or not anything more
\* is enqueued; and a publisher that has ended takes nothing more from the
\* queue and emits nothing more.
C31_PublisherEndsAfterDisconnect ==
  /\ \A sid \in SessionIds :
       (pubPc[sid] # "none" /\ ~connected[sid]) ~> (pubPc[sid] = "done")
  /\ [][\A sid \in SessionIds :
          (pubPc[sid] = "check" /\ ~connected[sid] /\ pubPc'[sid] # "check") =>
            pubPc'[sid] = "done"
     ]_vars
  /\ [][\A sid \in SessionIds :
          pubPc[sid] = "done" =>
            /\ Len(queue'[sid]) >= Len(queue[sid])
            /\ Len(emitted'[sid]) = Len(emitted[sid])
     ]_vars

\* C31 witness: a publisher has ended after its subscriber left, having
\* emitted the session frame and the home surface and nothing else, with
\* nothing enqueued after the home surface.
C31_Witness ==
  \E sid \in SessionIds :
    /\ pubPc[sid] = "done"
    /\ ~connected[sid]
    /\ Len(enqueued[sid]) = 1
    /\ Len(emitted[sid]) = 2
    /\ queue[sid] = <<>>

\* what a replica makes of the messages of one surface, taken in order: a
\* surface/open sets the document to the model the surface was opened with, a
\* dataModelUpdate applies its patches
RECURSIVE Replay(_, _, _)
Replay(doc, msgs, surface_id) ==
  IF msgs = <<>> THEN doc
  ELSE LET m == Head(msgs).msg
           next == IF m.surfaceId # surface_id THEN doc
                   ELSE IF m.kind = "surface/open" THEN SurfaceModel
                   ELSE ApplyPatches(doc, m.patches).doc
       IN Replay(next, Tail(msgs), surface_id)

NothingRaised(sid) == \A i \in DOMAIN patched[sid] : ~patched[sid][i].raised

\* C32: as long as no patch application on a session has raised, replaying the
\* messages enqueued on the session for a surface, in order and starting from
\* the empty document, gives the surface's stored document; a surface that was
\* patched and never opened is included.
C32_ReplayConsistency ==
  \A sid \in SessionIds : \A surface_id \in Surfaces :
    NothingRaised(sid) =>
      Replay(EmptyDict, enqueued[sid], surface_id) = DocNow(sid, surface_id)

\* C32 witness: on one session, a surface that was never opened holds a
\* document made by an update alone, and the opened home surface has been
\* updated as well; nothing raised.
C32_Witness ==
  \E sid \in SessionIds :
    /\ NothingRaised(sid)
    /\ Len(patched[sid]) = 2
    /\ {patched[sid][i].surfaceId : i \in 1..2} = Surfaces
    /\ \E i \in DOMAIN enqueued[sid] :
         /\ IsHomeOpen(enqueued[sid][i].msg)
         /\ \E j \in DOMAIN enqueued[sid] :
              j > i /\ enqueued[sid][j].msg.kind = "dataModelUpdate"
                    /\ enqueued[sid][j].msg.surfaceId = "home"
    /\ \A i \in DOMAIN enqueued[sid] :
         ~(enqueued[sid][i].msg.kind = "surface/open"
           /\ enqueued[sid][i].msg.surfaceId = "toeslagen")
    /\ DocNow(sid, "toeslagen") # EmptyDict
    /\ DocNow(sid, "home") # SurfaceModel

\* C33: the content of a message is fixed when it is enqueued.  Every emitted
\* surface/open frame carries the model the surface was opened with, and every
\* emitted dataModelUpdate frame carries the patches that were enqueued,
\* whatever was applied to the surface between enqueue and emission.
C33_ContentFixedAtEnqueue ==
  \A sid \in SessionIds : \A i \in DOMAIN FromQueue(emitted[sid]) :
    LET f == FromQueue(emitted[sid])[i]
    IN /\ f.kind = "surface/open" => f.dataModel = SurfaceModel
       /\ f.kind = "dataModelUpdate" => f.patches = enqueued[sid][i].msg.patches

\* the step is a push_update_and_apply or a surface open on (sid, surface_id)
WritesSurface(sid, surface_id) ==
  \/ \E patches \in HubBatches : PushUpdateAndApply(sid, surface_id, patches)
  \/ SendOpenSurface(sid, surface_id)
  \/ surface_id = "home" /\ GenOpenHome(sid)

\* C38: a push_update_and_apply or a surface open on (sid, surface) leaves the
\* registry as it is, leaves every other session's queue, surface table and
\* documents as they are, and within the session leaves every other surface
\* with the document it had (or with none, if it had none).
C38_SessionSurfaceIsolation ==
  [][\A sid \in SessionIds, surface_id \in Surfaces :
       WritesSurface(sid, surface_id) =>
         /\ sessions' = sessions
         /\ \A o \in SessionIds \ {sid} :
              queue'[o] = queue[o] /\ models'[o] = models[o] /\ heap'[o] = heap[o]
         /\ \A u \in Surfaces \ {surface_id} :
              /\ (u \in DOMAIN models'[sid]) = (u \in DOMAIN models[sid])
              /\ DocNext(sid, u) = DocNow(sid, u)
    ]_vars

\* C38 witness: two sessions are registered; on one of them toeslagen was
\* opened and then patched to loading = true, while its home document and
\* the other session's home document and queue are as their open left them.
C38_Witness ==
  \E sid \in SessionIds, o \in SessionIds :
    /\ sid # o /\ HubGet(sid) /\ HubGet(o)
    /\ "home" \in DOMAIN models[sid] /\ "toeslagen" \in DOMAIN models[sid]
    /\ Get(DocNow(sid, "toeslagen"), <<"status", "loading">>) = True
    /\ DocNow(sid, "home") = SurfaceModel
    /\ "home" \in DOMAIN models[o] /\ DocNow(o, "home") = SurfaceModel
    /\ Len(queue[o]) = 1 /\ Len(enqueued[sid]) = 3

(***************************************************************************)
(* Properties of the hub's API under any caller (SpecHubApi).              *)
(***************************************************************************)
\* a session id that was registered and has been dropped
Dropped(sid) == ~HubGet(sid) /\ pubPc[sid] # "none"

\* C17: a push or a push_update_and_apply that names a session id not in the
\* registry (never created, or dropped) changes nothing: no queue receives a
\* message, no surface document or surface table changes, and the call is not
\* among those that raised.
C17_UnknownSessionNoOp ==
  [][\A sid \in SessionIds :
       (/\ ~HubGet(sid)
        /\ \/ \E msg \in PushMsgs : ApiPush(sid, msg)
           \/ \E surface_id \in Surfaces, patches \in ApiBatches :
                ApiPushUpdateAndApply(sid, surface_id, patches))
       => UNCHANGED <<sessions, queue, models, heap, enqueued, patched, emitted>>
    ]_vars

\* C17 witness: a session got its home surface and was dropped, and a
\* push_update_and_apply then named it: its home document and its queue history
\* are as the opening of home left them.
C17_Witness ==
  \E r \in missed :
    /\ r.dropped
    /\ r.op = "push_update_and_apply"
    /\ DocNow(r.sid, "home") = SurfaceModel
    /\ Len(enqueued[r.sid]) = 1

\* C18: once a session has been dropped while its publisher is still streaming,
\* the publisher eventually ends its stream.
C18_DropEndsPublisher ==
  \A sid \in SessionIds :
    (Dropped(sid) /\ pubPc[sid] # "done") ~> (pubPc[sid] = "done")

\* C26: the registry holds exactly the ids that a create returned and no drop
\* has removed since.  An id enters it only by a create, which picks an id no
\* create returned before and registers under it a session with an empty queue
\* and no surfaces; an id leaves it only by a drop of that id, which removes
\* nothing else; a drop of an id that is not registered changes nothing.
C26_RegistrySemantics ==
  /\ [](\A sid \in SessionIds : HubGet(sid) => pubPc[sid] # "none")
  /\ [][\A sid \in SessionIds :
          /\ (sid \in sessions' /\ sid \notin sessions) =>
               /\ pubPc[sid] = "none"
               /\ sessions' = sessions \cup {sid}
               /\ queue'[sid] = <<>> /\ models'[sid] = NoKeys /\ heap'[sid] = <<>>
          /\ (sid \in sessions /\ sid \notin sessions') =>
               /\ ApiDrop(sid)
               /\ sessions' = sessions \ {sid}
          /\ (ApiDrop(sid) /\ sid \notin sessions) =>
               UNCHANGED <<sessions, queue, models, heap, enqueued, emitted, pubPc>>
       ]_vars

\* C26 witness: one session was created and dropped, so that get no longer
\* finds it, while the session created after it is still found.
C26_Witness ==
  \E sid \in SessionIds, other \in SessionIds :
    /\ Dropped(sid)
    /\ HubGet(other)
    /\ emitted[other] # <<>>
    /\ emitted[other][1].sessionId # sid

(***************************************************************************)
(* Properties of call_tool and the tool server (SpecRpc, SpecRpcFair).     *)
(***************************************************************************)
\* C5: a call that returns a result returns the result of the broadcast response
\* whose id is the call's own id, which is the server's response to its request.
C5_ResultIsOwnResponse ==
  \A c \in Calls :
    outcome[c].kind = "result" =>
      \E r \in published :
        /\ r.id = callId[c]
        /\ r.error = None
        /\ r.result = outcome[c].value
        /\ r = ServerResponse(request[c])

\* C5 witness: two calls in flight together have both returned, with different
\* results, and one of them read the other's response on its stream first.
C5_Witness ==
  \E c \in Calls, k \in Calls :
    /\ c # k
    /\ outcome[c].kind = "result"
    /\ outcome[k].kind = "result"
    /\ outcome[c].value # outcome[k].value
    /\ skipped[c]

StreamEndedError == [kind |-> "RuntimeError", value |-> Scal("SSE stream ended without response")]

\* C6: after call_tool has returned or raised, its POST task (if one was created)
\* is finished or cancelled, never pending; and a call that opened its stream and
\* for which no response with its id was ever broadcast ended with the timeout
\* error, unless its stream ended first.
C6_TimeoutAndNoDanglingPost ==
  \A c \in Calls :
    cpc[c] = "done" =>
      /\ postTask[c] \in {"none", "done", "failed", "cancelled"}
      /\ postTask[c] = "none" <=> outcome[c].kind = "HTTPError"
      /\ (postTask[c] # "none" /\ \A r \in published : r.id # callId[c]) =>
           \/ outcome[c] = [kind |-> "TimeoutError", value |-> None]
           \/ outcome[c] = StreamEndedError

\* C6 witness: a call timed out while its POST was still pending, and the POST
\* task was cancelled.
C6_Witness ==
  \E c \in Calls :
    /\ cpc[c] = "done"
    /\ outcome[c].kind = "TimeoutError"
    /\ postTask[c] = "cancelled"
    /\ ingress[c] = "received"

\* C7: a call whose ingress POST failed ends with that transport failure.
C7_PostFailurePropagates ==
  \A c \in Calls :
    (cpc[c] = "done" /\ postTask[c] = "failed") => outcome[c].kind = "HTTPError"

\* C8: every call that has been started eventually ends, whatever the server does.
C8_CallAlwaysTerminates ==
  \A c \in Calls : (cpc[c] = "opening") ~> (cpc[c] = "done")

\* the step is call c reading from its stream the message that carries its id
\* and an error that is not null
ReadsOwnError(c) ==
  /\ ReadEvent(c)
  /\ Head(sq[c]).id = callId[c]
  /\ Head(sq[c]).error # None

\* C20: when call_tool reads the message with its own id and that message has a
\* non-null error, the call ends there with a RuntimeError whose argument is
\* exactly that error payload; and a call for whose id the server broadcast an
\* error never returns a result.
C20_RemoteErrorRaised ==
  /\ [][\A c \in Calls :
          ReadsOwnError(c) =>
            /\ cpc'[c] = "done"
            /\ outcome'[c] = [kind |-> "RuntimeError", value |-> Head(sq[c]).error]
       ]_vars
  /\ [](\A c \in Calls : \A r \in published :
          (r.id = callId[c] /\ r.error # None) => outcome[c].kind # "result")

\* C20 witness: a call for an unknown tool has ended with the server's error
\* payload, after skipping another call's response on its stream, while the
\* other call returned its result.
C20_Witness ==
  \E c \in Calls, k \in Calls :
    /\ cpc[c] = "done"
    /\ outcome[c] = [kind |-> "RuntimeError", value |-> ServerResponse(request[c]).error]
    /\ ServerResponse(request[c]).error # None
    /\ skipped[c]
    /\ outcome[k].kind = "result"

\* C21: when wait_for_response finds its stream ended with nothing left to read
\* and no message with the call's id seen, the call ends there with the
\* RuntimeError "SSE stream ended without response" (not a timeout, not a
\* result); and a call gets that error only in such a step.
C21_StreamEndedError ==
  /\ [][\A c \in Calls :
          ReadEnd(c) =>
            /\ cpc'[c] = "done"
            /\ outcome'[c] = StreamEndedError
            /\ outcome'[c].kind \notin {"TimeoutError", "result"}
       ]_vars
  /\ [][\A c \in Calls :
          (outcome'[c] = StreamEndedError /\ outcome[c] # StreamEndedError) =>
            /\ cpc[c] = "waiting"
            /\ stream[c] = "ended"
            /\ sq[c] = <<>>
       ]_vars

\* C21 witness: a call whose POST reached the server ended with the stream-ended
\* error: the server closed the stream without ever answering, after the call
\* had read and skipped another call's response.
C21_Witness ==
  \E c \in Calls :
    /\ cpc[c] = "done"
    /\ outcome[c] = StreamEndedError
    /\ skipped[c]
    /\ ingress[c] = "received"
    /\ \A r \in published : r.id # callId[c]

\* the ways a call that entered its stream context can end
TerminalKinds == {"result", "RuntimeError", "TimeoutError"}

\* C22: each call reads only its own stream and is the only reader of it: an
\* event leaves the stream of call c only in a step of c while c waits, and that
\* step changes no other call.  A call ends once, by one terminal condition
\* (result, remote error, end of stream, timeout); from then on its outcome
\* stays, it takes no further event from the stream, and the stream is closed.
C22_OneReaderOneEnd ==
  /\ [](\A c \in Calls :
          /\ cpc[c] = "done" <=> outcome[c] # NoOutcome
          /\ cpc[c] = "done" => stream[c] = "closed"
          /\ (cpc[c] = "done" /\ postTask[c] # "none") => outcome[c].kind \in TerminalKinds)
  /\ [][\A c \in Calls :
          /\ Len(sq'[c]) < Len(sq[c]) =>
               /\ cpc[c] = "waiting"
               /\ sq'[c] = Tail(sq[c])
               /\ \A k \in Calls \ {c} :
                    cpc'[k] = cpc[k] /\ outcome'[k] = outcome[k] /\ sq'[k] = sq[k]
          /\ cpc[c] = "done" =>
               /\ cpc'[c] = "done"
               /\ outcome'[c] = outcome[c]
               /\ stream'[c] = "closed"
               /\ Len(sq'[c]) >= Len(sq[c])
       ]_vars

\* C22 witness: two calls have ended by different terminal conditions, each on
\* its own closed stream, and one of them left an event on its stream unread.
C22_Witness ==
  \E c \in Calls, k \in Calls :
    /\ cpc[c] = "done" /\ cpc[k] = "done"
    /\ outcome[c].kind = "result"
    /\ outcome[k].kind = "TimeoutError"
    /\ stream[c] = "closed" /\ stream[k] = "closed"
    /\ sq[c] # <<>>

Decoded == IsSuccess(aresp.status) /\ aresp.body # NotJson

\* C23: whenever the decoded body of the response holds an error field, whatever
\* its value and whatever else the body holds, the finished call has raised the
\* RuntimeError whose message is "A2A error: " followed by str() of that value;
\* it has not returned data.
C23_ErrorFieldRaises ==
  (apc = "done" /\ Decoded /\ IsDict(aresp.body) /\ "error" \in DOMAIN aresp.body.d) =>
    /\ aout.kind = "RuntimeError"
    /\ aout.value.prefix = "A2A error: "
    /\ aout.value.str = PyStr(aresp.body.d["error"])
    /\ aout.kind # "data"

\* C23 witness: the body held both an error field with value null and a result
\* with data, and the call raised.
C23_Witness ==
  /\ apc = "done"
  /\ Decoded
  /\ aresp.body = Dict("error" :> None @@ "result" :> Dict("data" :> Answer))
  /\ aout.kind = "RuntimeError"
  /\ aout.value.str = [text |-> "None"]

\* the values that count as an empty result or an empty data payload
EmptyValues == {None, False, EmptyDict, List(<<>>)}

\* the body is a mapping without an error field whose result, if it has one, is
\* a mapping or empty
PlainBody ==
  /\ IsDict(aresp.body)
  /\ "error" \notin DOMAIN aresp.body.d
  /\ "result" \in DOMAIN aresp.body.d =>
       (IsDict(aresp.body.d["result"]) \/ aresp.body.d["result"] \in EmptyValues)

\* the body holds a payload at result.data that is not empty
HasPayload ==
  /\ "result" \in DOMAIN aresp.body.d
  /\ IsDict(aresp.body.d["result"])
  /\ "data" \in DOMAIN aresp.body.d["result"].d
  /\ aresp.body.d["result"].d["data"] \notin EmptyValues

C25_StatusCheckFirst ==
  /\ (apc = "done" /\ aresp # NoResponse /\ ~IsSuccess(aresp.status)) =>
       aout = [kind |-> "HTTPStatusError", value |-> [status |-> aresp.status]]
  /\ apc \in {"decode", "check", "extract"} => IsSuccess(aresp.status)
  /\ aout.kind \in {"RuntimeError", "data", "JSONDecodeError", "AttributeError"} =>
       IsSuccess(aresp.status)

\* C25 witness: a 404 response whose body holds an error field ended the call
\* with the status error, not with the error of the body.
C25_Witness ==
  /\ apc = "done"
  /\ aresp.status = 404
  /\ HasErrorField(aresp.body)
  /\ aout.kind = "HTTPStatusError"


(***************************************************************************)
(* Properties of the tool server under any client (SpecServer).            *)
(***************************************************************************)
Parsable(body) == body # NotJson

\* C29: every POST /message whose body parses gets exactly one JSON-RPC response
\* with the id of the request, as the body of an HTTP 200, and the step that
\* answers it appends that response to the queue of every stream registered at
\* that moment; no such request ends in an HTTP failure.
C29_OneResponseReturnedAndBroadcast ==
  /\ [](\A p \in Posts :
          (post[p].pc = "done" /\ Parsable(post[p].body)) =>
            /\ reply[p].status = 200
            /\ reply[p].body.id = DictGet(post[p].body, "id"))
  /\ [][\A p \in Posts :
          (reply'[p] # reply[p] /\ Parsable(post'[p].body)) =>
            /\ reply[p] = NoReply
            /\ reply'[p].status = 200
            /\ \A s \in Streams :
                 cq'[s] = IF s \in clients THEN Append(cq[s], reply'[p].body) ELSE cq[s]
     ]_vars

\* C29 restricted to bodies that are objects whose params, when given, are an
\* object or empty.
PlainRequest(body) ==
  /\ IsDict(body)
  /\ DictGet(body, "method") = Scal("tools/call") => IsDict(ParamsOf(body))

C29_PlainRequests ==
  /\ [](\A p \in Posts :
          (post[p].pc = "done" /\ PlainRequest(post[p].body)) =>
            /\ reply[p].status = 200
            /\ reply[p].body.id = DictGet(post[p].body, "id"))
  /\ [][\A p \in Posts :
          (reply'[p] # reply[p] /\ PlainRequest(post'[p].body)) =>
            /\ reply[p] = NoReply
            /\ reply'[p].status = 200
            /\ \A s \in Streams :
                 cq'[s] = IF s \in clients THEN Append(cq[s], reply'[p].body) ELSE cq[s]
     ]_vars

\* the request ids of the payloads count up
InBroadcastOrder(q) ==
  \A i \in DOMAIN q : \A j \in DOMAIN q : i < j => q[i].id.num < q[j].id.num

\* C36 (SpecFlood): a POST is answered in the step that broadcasts its
\* response, whatever the state of the queues; the broadcast appends the
\* response to the queue of every registered stream except those whose queue
\* already holds 100 payloads, which stay as they are; and what a stream has
\* been sent, followed by what is still queued for it, is in broadcast order.
C36_BroadcastDropsOnlyWhenFull ==
  /\ [](\A s \in Streams : Len(cq[s]) <= SseQueueMax)
  /\ [](\A s \in Streams : InBroadcastOrder(sent[s] \o cq[s]))
  /\ [][FloodPost =>
          LET resp == MethodNotFound(Num(nflood))
          IN /\ reply'[Flooder] = Ok(resp)
             /\ post'[Flooder].pc = "done"
             /\ \A s \in Streams :
                  cq'[s] = IF s \in clients /\ Len(cq[s]) < SseQueueMax
                           THEN Append(cq[s], resp) ELSE cq[s]
     ]_vars

\* C36 witness: the queue of a stalled stream holds 100 payloads, and another
\* registered stream has been given a payload broadcast after the last one the
\* stalled stream holds.
C36_Witness ==
  \E s \in clients, o \in clients :
    /\ Len(cq[s]) = SseQueueMax
    /\ \E i \in DOMAIN cq[o] : cq[o][i].id.num > cq[s][SseQueueMax].id.num

C34_LoadingEventuallyReset ==
  \A f \in Flows : (floading[f] = "true") ~> (floading[f] = "false")

(***************************************************************************)
(* Properties of _parse_sse_events (SpecParse).                            *)
(***************************************************************************)
\* the line that follows the last blank line before position i
GroupStart(i) ==
  LET blanks == {b \in 1..(i - 1) : lines[b] = Blank} \cup {0}
  IN 1 + CHOOSE m \in blanks : \A b \in blanks : b <= m

\* the lines between the blank line at position b and the blank line before it
Group(b) == SubSeq(lines, GroupStart(b), b - 1)

\* the lines after the last blank line
FinalGroup == SubSeq(lines, GroupStart(Len(lines) + 1), Len(lines))

\* what a group dispatches: nothing without a data line, else one pair of the
\* name on its last event line (message without one) and its data joined
Dispatch(g) ==
  LET names == SelectSeq(g, LAMBDA l : StartsWith(l, "event"))
      datas == SelectSeq(g, LAMBDA l : StartsWith(l, "data"))
  IN IF datas = <<>> THEN <<>>
     ELSE <<Pair(IF names = <<>> THEN DefaultEvent
                 ELSE Strip(AfterColon(names[Len(names)])),
                 Join([i \in DOMAIN datas |-> LStrip(AfterColon(datas[i]))]))>>

\* what the blank lines among the first i lines dispatch, in order
RECURSIVE DispatchedUpTo(_)
DispatchedUpTo(i) ==
  IF i = 0 THEN <<>>
  ELSE DispatchedUpTo(i - 1) \o (IF lines[i] = Blank THEN Dispatch(Group(i)) ELSE <<>>)

\* C39: what _parse_sse_events has yielded is, blank line by blank line, one
\* pair for each group that holds a data line and nothing for a group that
\* holds none, followed at the end of the stream by the pair of the last,
\* unterminated group if it holds a data line; the pair carries the name on
\* the group's last event: line, message without one, and the group's data
\* joined by newline; after a blank line the name is message again and no data
\* is pending.
C39_ParseSseEvents ==
  /\ yielded = DispatchedUpTo(Len(lines)) \o (IF eof THEN Dispatch(FinalGroup) ELSE <<>>)
  /\ (lines # <<>> /\ lines[Len(lines)] = Blank) =>
       event = DefaultEvent /\ data_lines = <<>>

\* C39 witness: a named group with one data line was dispatched by its blank
\* line, and a second group of two data lines without a name, not terminated,
\* was flushed under the name message when the stream ended.
C39_Witness ==
  /\ eof
  /\ Len(lines) = 5
  /\ lines[3] = Blank
  /\ yielded = <<Pair(<<"x">>, <<"x">>),
                 Pair(DefaultEvent, <<"y", Space, Newline, "x">>)>>
====
